---- MODULE Spec2Model ----
(***************************************************************************)
(* Model of the Cincinnati release discovery client                        *)
(* (package cincinnaticlient): the breadth-first traversal DiscoverReleases *)
(* with its helpers splitChannel, createRelease, discoverNewChannels,       *)
(* processEdges and processConditionalEdges.                                *)
(*                                                                         *)
(* Strings are sequences of one-character strings, so that strings.Index,   *)
(* strings.Split, strings.TrimSpace, strings.HasPrefix, version.NewVersion  *)
(* and Version.String are computed character by character.                  *)
(***************************************************************************)
EXTENDS Integers, Sequences, FiniteSets, TLC

(***************************************************************************)
(* Bounds of the model.                                                     *)
(***************************************************************************)
\* Nodes, edges and conditional edge groups the Graph Source returns in total
\* over one run, all graphs together.
MaxGraphSize == 3

\* Releases in the ReleasesByChannel handed to the aggregation.
MaxReleases == 3

(***************************************************************************)
(* Strings.                                                                 *)
(***************************************************************************)
Digits == <<"0", "1", "2", "3", "4", "5", "6", "7", "8", "9">>

IsDigit(c) == \E d \in 1..Len(Digits) : Digits[d] = c

DigitVal(c) == (CHOOSE d \in 1..Len(Digits) : Digits[d] = c) - 1

\* strings.Index(s, c): the 0-based index of the first c in s, or -1.
Index(s, c) ==
  IF \E k \in 1..Len(s) : s[k] = c
  THEN (CHOOSE k \in 1..Len(s) : s[k] = c /\ \A j \in 1..(k - 1) : s[j] # c) - 1
  ELSE -1

\* strings.HasPrefix(s, p).
HasPrefix(s, p) == Len(s) >= Len(p) /\ SubSeq(s, 1, Len(p)) = p

RECURSIVE TrimLeft(_)
TrimLeft(s) == IF s # <<>> /\ Head(s) = " " THEN TrimLeft(Tail(s)) ELSE s

RECURSIVE TrimRight(_)
TrimRight(s) ==
  IF s # <<>> /\ s[Len(s)] = " " THEN TrimRight(SubSeq(s, 1, Len(s) - 1)) ELSE s

\* strings.TrimSpace(s).
TrimSpace(s) == TrimRight(TrimLeft(s))

\* strings.Split(s, sep) for a one-character separator: always at least one
\* part, empty parts kept.
RECURSIVE Split(_, _)
Split(s, sep) ==
  LET k == Index(s, sep)
  IN  IF k = -1 THEN <<s>>
      ELSE <<SubSeq(s, 1, k)>> \o Split(SubSeq(s, k + 2, Len(s)), sep)

\* slices.Contains(list, x).
Contains(list, x) == \E k \in 1..Len(list) : list[k] = x

\* strings.Join(parts, sep).
RECURSIVE Join(_, _)
Join(parts, sep) ==
  IF parts = <<>> THEN <<>>
  ELSE IF Len(parts) = 1 THEN parts[1]
  ELSE parts[1] \o sep \o Join(Tail(parts), sep)

(***************************************************************************)
(* Versions (github.com/hashicorp/go-version).  A *version.Version is its   *)
(* sequence of segments, at least three; the nil pointer is NilVersion.     *)
(* The model's strings carry no pre-release or build-metadata suffix, so a  *)
(* version string is digits and dots.                                       *)
(***************************************************************************)
NilVersion == <<>>

\* strconv.ParseInt of a non-empty digit string.
RECURSIVE ParseInt(_)
ParseInt(s) ==
  IF Len(s) = 1 THEN DigitVal(s[1])
  ELSE 10 * ParseInt(SubSeq(s, 1, Len(s) - 1)) + DigitVal(s[Len(s)])

\* strconv.FormatInt(n, 10) for n >= 0.
RECURSIVE FormatInt(_)
FormatInt(n) ==
  IF n < 10 THEN <<Digits[n + 1]>>
  ELSE FormatInt(n \div 10) \o <<Digits[(n % 10) + 1]>>

\* The version regexp, anchored: [0-9]+(\.[0-9]+)*
VersionSyntaxOk(s) ==
  LET parts == Split(s, ".")
  IN  \A k \in 1..Len(parts) :
        /\ parts[k] # <<>>
        /\ \A j \in 1..Len(parts[k]) : IsDigit(parts[k][j])

\* Fewer than three segments are padded with zeros.
PadSegments(segs) ==
  segs \o [k \in 1..(IF Len(segs) < 3 THEN 3 - Len(segs) ELSE 0) |-> 0]

\* version.NewVersion(s): ok is FALSE when s is not a version.
NewVersion(s) ==
  IF VersionSyntaxOk(s)
  THEN LET parts == Split(s, ".")
       IN  [ok |-> TRUE, v |-> PadSegments([k \in 1..Len(parts) |-> ParseInt(parts[k])])]
  ELSE [ok |-> FALSE, v |-> NilVersion]

\* (*Version).String(): the segments in decimal joined by dots (the
\* normalised form, not the text that was parsed).
VersionString(v) == Join([k \in 1..Len(v) |-> FormatInt(v[k])], <<".">>)

Segment(v, k) == IF k <= Len(v) THEN v[k] ELSE 0

\* (*Version).Compare(other): -1, 0 or 1; missing segments count as zero.
RECURSIVE CompareFrom(_, _, _)
CompareFrom(a, b, k) ==
  IF k > Len(a) /\ k > Len(b) THEN 0
  ELSE IF Segment(a, k) < Segment(b, k) THEN -1
  ELSE IF Segment(a, k) > Segment(b, k) THEN 1
  ELSE CompareFrom(a, b, k + 1)

Compare(a, b) == CompareFrom(a, b, 1)

(***************************************************************************)
(* Maps (Go map[string]T): functions whose domain is the set of keys.       *)
(***************************************************************************)
EmptyMap == <<>>

Put(m, k, x) == [y \in (DOMAIN m) \cup {k} |-> IF y = k THEN x ELSE m[y]]

(***************************************************************************)
(* Errors and results.  Every error value has the same fields; NoError is   *)
(* Go's nil error and NilResult Go's nil ReleasesByChannel.                 *)
(***************************************************************************)
NoError == [kind |-> "nil", arch |-> "", channel |-> <<>>, detail |-> <<>>]

\* fmt.Errorf("invalid channel format: %s", channel)
InvalidChannelFormat(ch) ==
  [kind |-> "invalid channel format", arch |-> "", channel |-> ch, detail |-> <<>>]

\* The error of version.NewVersion: "Malformed version: %s".
MalformedVersion(s) ==
  [kind |-> "malformed version", arch |-> "", channel |-> <<>>, detail |-> s]

\* The errors of fetchGraph that FetchError wraps.
URLRequired == <<"cincinnati graph URL is required">>

GraphSourceFailed == <<"error fetching data">>

\* FetchError without the channel name.
FetchErrorNoChannel(a, ch) ==
  [kind |-> "error fetching graph", arch |-> a, channel |-> <<>>, detail |-> <<>>]

\* fmt.Errorf("error fetching %s graph for channel %s: %w", arch, channel, err)
FetchError(a, ch) ==
  [kind |-> "error fetching graph", arch |-> a, channel |-> ch, detail |-> <<>>]

\* fmt.Errorf("invalid edge format: expected 2 ints, got: %v", edge)
InvalidEdgeFormat(edge) ==
  [kind |-> "invalid edge format", arch |-> "", channel |-> <<>>, detail |-> edge]

\* fmt.Errorf("invalid edge indices: %v at index: %d", edge, idx)
InvalidEdgeIndices(edge, idx) ==
  [kind |-> "invalid edge indices", arch |-> "", channel |-> <<>>, detail |-> edge \o <<idx>>]

NilResult == [isNil |-> TRUE, releases |-> EmptyMap]

Result(rbc) == [isNil |-> FALSE, releases |-> rbc]

(***************************************************************************)
(* Helpers of the client.                                                   *)
(***************************************************************************)
\* splitChannel without its error: no hyphen gives an empty prefix and the
\* input as the version.
splitChannelNoError(ch) ==
  LET idx == Index(ch, "-")
  IN  [prefix |-> SubSeq(ch, 1, idx + 1),
       version |-> SubSeq(ch, idx + 2, Len(ch)),
       err |-> NoError]

\* splitChannel: the prefix up to and including the first hyphen, and the
\* rest; an error when there is no hyphen.
splitChannel(ch) ==
  LET idx == Index(ch, "-")
  IN  IF idx = -1
      THEN [prefix |-> <<>>, version |-> ch, err |-> InvalidChannelFormat(ch)]
      ELSE [prefix |-> SubSeq(ch, 1, idx + 1),
            version |-> SubSeq(ch, idx + 2, Len(ch)),
            err |-> NoError]

\* extractSemVersionFromChannel
extractSemVersionFromChannel(ch, prefix) ==
  NewVersion(TrimSpace(SubSeq(ch, Len(prefix) + 1, Len(ch))))

\* isValidVersion: v is not nil and v >= minVersion.
isValidVersion(v, minV) == v # NilVersion /\ Compare(v, minV) >= 0

\* createRelease that only tests the version for nil.
createReleaseNoMin(node, a, minV) ==
  IF node.Version = NilVersion
  THEN [found |-> FALSE,
        r |-> [Version |-> <<>>, Arch |-> "", Payload |-> "", AvailableUpgrades |-> <<>>]]
  ELSE [found |-> TRUE,
        r |-> [Version |-> VersionString(node.Version), Arch |-> a,
               Payload |-> node.Payload, AvailableUpgrades |-> <<>>]]

\* createRelease: found is FALSE for a node that does not qualify.
createRelease(node, a, minV) ==
  IF ~isValidVersion(node.Version, minV)
  THEN [found |-> FALSE,
        r |-> [Version |-> <<>>, Arch |-> "", Payload |-> "", AvailableUpgrades |-> <<>>]]
  ELSE [found |-> TRUE,
        r |-> [Version |-> VersionString(node.Version), Arch |-> a,
               Payload |-> node.Payload, AvailableUpgrades |-> <<>>]]

\* discoverFrom without the test for the start channel's prefix.
RECURSIVE discoverFromAnyPrefix(_, _, _)
discoverFromAnyPrefix(listed, prefix, minV) ==
  IF listed = <<>> THEN <<>>
  ELSE LET ch == TrimSpace(Head(listed))
           rest == discoverFromAnyPrefix(Tail(listed), prefix, minV)
           parsed == extractSemVersionFromChannel(ch, prefix)
       IN  IF ~parsed.ok THEN rest
           ELSE IF isValidVersion(parsed.v, minV) THEN <<ch>> \o rest
           ELSE rest

\* discoverFrom that leaves the loop at a name whose version does not parse.
RECURSIVE discoverFromUntilMalformed(_, _, _)
discoverFromUntilMalformed(listed, prefix, minV) ==
  IF listed = <<>> THEN <<>>
  ELSE LET ch == TrimSpace(Head(listed))
           rest == discoverFromUntilMalformed(Tail(listed), prefix, minV)
       IN  IF HasPrefix(ch, prefix)
           THEN LET parsed == extractSemVersionFromChannel(ch, prefix)
                IN  IF ~parsed.ok THEN <<>>
                    ELSE IF isValidVersion(parsed.v, minV) THEN <<ch>> \o rest
                    ELSE rest
           ELSE rest

\* The loop of discoverNewChannels over the listed channel names.
RECURSIVE discoverFrom(_, _, _)
discoverFrom(listed, prefix, minV) ==
  IF listed = <<>> THEN <<>>
  ELSE LET ch == TrimSpace(Head(listed))
           rest == discoverFrom(Tail(listed), prefix, minV)
       IN  IF HasPrefix(ch, prefix)
           THEN LET parsed == extractSemVersionFromChannel(ch, prefix)
                IN  IF ~parsed.ok THEN rest
                    ELSE IF isValidVersion(parsed.v, minV) THEN <<ch>> \o rest
                    ELSE rest
           ELSE rest

\* discoverNewChannels: the channels of the node's metadata entry
\* io.openshift.upgrades.graph.release.channels that match.
discoverNewChannels(node, prefix, minV) ==
  IF ~node.HasChannels THEN <<>>
  ELSE discoverFrom(Split(node.Channels, ","), prefix, minV)

\* The members of added in the order of their first occurrence in listed.
RECURSIVE FirstOccurrences(_, _)
FirstOccurrences(listed, added) ==
  IF listed = <<>> THEN <<>>
  ELSE IF Head(listed) \in added
  THEN <<Head(listed)>> \o FirstOccurrences(Tail(listed), added \ {Head(listed)})
  ELSE FirstOccurrences(Tail(listed), added)

\* enqueueAll that puts a new channel at the front of the queue.
RECURSIVE enqueueAllAtFront(_, _, _, _)
enqueueAllAtFront(newChannels, q, qd, pr) ==
  IF newChannels = <<>> THEN [queue |-> q, queued |-> qd]
  ELSE LET ch == Head(newChannels)
       IN  IF ch \notin qd /\ ch \notin pr
           THEN enqueueAllAtFront(Tail(newChannels), <<ch>> \o q, qd \cup {ch}, pr)
           ELSE enqueueAllAtFront(Tail(newChannels), q, qd, pr)

\* enqueueAll that leaves the loop after the first channel it enqueues.
RECURSIVE enqueueAllFirstOnly(_, _, _, _)
enqueueAllFirstOnly(newChannels, q, qd, pr) ==
  IF newChannels = <<>> THEN [queue |-> q, queued |-> qd]
  ELSE LET ch == Head(newChannels)
       IN  IF ch \notin qd /\ ch \notin pr
           THEN [queue |-> Append(q, ch), queued |-> qd \cup {ch}]
           ELSE enqueueAllFirstOnly(Tail(newChannels), q, qd, pr)

\* enqueueAll that tests processed only, not queued.
RECURSIVE enqueueAllNotProcessed(_, _, _, _)
enqueueAllNotProcessed(newChannels, q, qd, pr) ==
  IF newChannels = <<>> THEN [queue |-> q, queued |-> qd]
  ELSE LET ch == Head(newChannels)
       IN  IF ch \notin pr
           THEN enqueueAllNotProcessed(Tail(newChannels), Append(q, ch), qd \cup {ch}, pr)
           ELSE enqueueAllNotProcessed(Tail(newChannels), q, qd, pr)

\* The enqueue loop of DiscoverReleases over newChannels.
RECURSIVE enqueueAll(_, _, _, _)
enqueueAll(newChannels, q, qd, pr) ==
  IF newChannels = <<>> THEN [queue |-> q, queued |-> qd]
  ELSE LET ch == Head(newChannels)
       IN  IF ch \notin qd /\ ch \notin pr
           THEN enqueueAll(Tail(newChannels), Append(q, ch), qd \cup {ch}, pr)
           ELSE enqueueAll(Tail(newChannels), q, qd, pr)

\* addUpgrade without the slices.Contains test.
addUpgradeNoDedup(releases, fromVerStr, toVerStr) ==
  IF fromVerStr \in DOMAIN releases
  THEN Put(releases, fromVerStr,
           [releases[fromVerStr] EXCEPT !.AvailableUpgrades = Append(@, toVerStr)])
  ELSE releases

\* addUpgrade that makes a release for a source version that has none.
addUpgradeCreating(releases, fromVerStr, toVerStr) ==
  IF fromVerStr \in DOMAIN releases
  THEN LET r == releases[fromVerStr]
       IN  IF ~Contains(r.AvailableUpgrades, toVerStr)
           THEN Put(releases, fromVerStr,
                    [r EXCEPT !.AvailableUpgrades = Append(@, toVerStr)])
           ELSE releases
  ELSE Put(releases, fromVerStr,
           [Version |-> fromVerStr, Arch |-> "", Payload |-> "",
            AvailableUpgrades |-> <<toVerStr>>])

\* addUpgrade that puts the new target in front of the list.
addUpgradePrepend(releases, fromVerStr, toVerStr) ==
  IF fromVerStr \in DOMAIN releases
  THEN LET r == releases[fromVerStr]
       IN  IF ~Contains(r.AvailableUpgrades, toVerStr)
           THEN Put(releases, fromVerStr,
                    [r EXCEPT !.AvailableUpgrades = <<toVerStr>> \o @])
           ELSE releases
  ELSE releases

\* addUpgrade with the edge taken backwards.
addUpgradeOfTarget(releases, fromVerStr, toVerStr) ==
  IF toVerStr \in DOMAIN releases
  THEN LET r == releases[toVerStr]
       IN  IF ~Contains(r.AvailableUpgrades, fromVerStr)
           THEN Put(releases, toVerStr,
                    [r EXCEPT !.AvailableUpgrades = Append(@, fromVerStr)])
           ELSE releases
  ELSE releases

\* The body both edge loops share: append toVerStr to the upgrades of the
\* release of fromVerStr, when that release exists and does not list it yet.
addUpgrade(releases, fromVerStr, toVerStr) ==
  IF fromVerStr \in DOMAIN releases
  THEN LET r == releases[fromVerStr]
       IN  IF ~Contains(r.AvailableUpgrades, toVerStr)
           THEN Put(releases, fromVerStr,
                    [r EXCEPT !.AvailableUpgrades = Append(@, toVerStr)])
           ELSE releases
  ELSE releases

\* One iteration of the loop of processEdges, for graph.Edges[idx + 1]
\* (idx is Go's 0-based loop index).  status is "ok", "error" (the function
\* returns err) or "panic" (String() is called on a nil *Version).
processEdge(g, releases, idx) ==
  LET edge == g.Edges[idx + 1]
      n == Len(g.Nodes)
  IN  IF Len(edge) < 2
      THEN [status |-> "error", err |-> InvalidEdgeFormat(edge), releases |-> releases]
      ELSE LET fromIdx == edge[1]
               toIdx == edge[2]
           IN  IF fromIdx < 0 \/ fromIdx >= n \/ toIdx < 0 \/ toIdx >= n
               THEN [status |-> "error", err |-> InvalidEdgeIndices(edge, idx),
                     releases |-> releases]
               ELSE IF g.Nodes[fromIdx + 1].Version = NilVersion
               THEN [status |-> "panic", err |-> NoError, releases |-> releases]
               ELSE LET fromVerStr == VersionString(g.Nodes[fromIdx + 1].Version)
                    IN  IF fromVerStr \in DOMAIN releases
                        THEN IF g.Nodes[toIdx + 1].Version = NilVersion
                             THEN [status |-> "panic", err |-> NoError,
                                   releases |-> releases]
                             ELSE [status |-> "ok", err |-> NoError,
                                   releases |->
                                     addUpgrade(releases, fromVerStr,
                                                VersionString(g.Nodes[toIdx + 1].Version))]
                        ELSE [status |-> "ok", err |-> NoError, releases |-> releases]

\* One iteration of the loop of processEdges of the earlier client
\* (cincinnati-client): the edge counts only when both of its nodes pass
\* isValidVersion, so a nil version is passed over and String() is never
\* called on it.
processEdgeEarlier(g, minV, releases, idx) ==
  LET edge == g.Edges[idx + 1]
      n == Len(g.Nodes)
  IN  IF Len(edge) < 2
      THEN [status |-> "error", err |-> InvalidEdgeFormat(edge), releases |-> releases]
      ELSE LET fromIdx == edge[1]
               toIdx == edge[2]
           IN  IF fromIdx < 0 \/ fromIdx >= n \/ toIdx < 0 \/ toIdx >= n
               THEN [status |-> "error", err |-> InvalidEdgeIndices(edge, idx),
                     releases |-> releases]
               ELSE LET fromNode == g.Nodes[fromIdx + 1]
                        toNode == g.Nodes[toIdx + 1]
                    IN  IF /\ isValidVersion(fromNode.Version, minV)
                           /\ isValidVersion(toNode.Version, minV)
                        THEN [status |-> "ok", err |-> NoError,
                              releases |-> addUpgrade(releases,
                                                      VersionString(fromNode.Version),
                                                      VersionString(toNode.Version))]
                        ELSE [status |-> "ok", err |-> NoError, releases |-> releases]

\* The first n iterations of the earlier client's processEdges.
RECURSIVE processEdgesEarlier(_, _, _, _)
processEdgesEarlier(g, minV, releases, n) ==
  IF n = 0 THEN [status |-> "ok", err |-> NoError, releases |-> releases]
  ELSE LET before == processEdgesEarlier(g, minV, releases, n - 1)
       IN  IF before.status # "ok" THEN before
           ELSE processEdgeEarlier(g, minV, before.releases, n - 1)

\* allAccepted that is content with one accepted risk.
allAcceptedAny(group, allowed) ==
  \E k \in 1..Len(group.Risks) : Contains(allowed, group.Risks[k])

\* allAccepted with the test of slices.Contains inverted.
allAcceptedInverted(group, allowed) ==
  \A k \in 1..Len(group.Risks) : ~Contains(allowed, group.Risks[k])

\* The risk test of processConditionalEdges: every risk name of the group is
\* in the allowed list.
allAccepted(group, allowed) ==
  \A k \in 1..Len(group.Risks) : Contains(allowed, group.Risks[k])

\* The inner loop of processConditionalEdges over the edges of one group.
RECURSIVE applyGroupEdges(_, _)
applyGroupEdges(edges, releases) ==
  IF edges = <<>> THEN releases
  ELSE applyGroupEdges(Tail(edges), addUpgrade(releases, Head(edges).From, Head(edges).To))

\* One iteration of the outer loop of processConditionalEdges; applied says
\* whether the loop over the group's edges ran.
processConditionalGroup(group, allowed, releases) ==
  IF ~allAccepted(group, allowed) THEN [applied |-> FALSE, releases |-> releases]
  ELSE [applied |-> TRUE, releases |-> applyGroupEdges(group.Edges, releases)]

(***************************************************************************)
(* Slices of strings.  A slice is the name of its backing array and its     *)
(* length; the heap maps the name of an array to its cells, as many as the  *)
(* capacity.  The nil slice has no array.                                   *)
(***************************************************************************)
NilArray == <<"nil", <<>>, <<>>>>

NilSlice == [arr |-> NilArray, len |-> 0]

\* cap(s)
Cap(h, s) == IF s.arr = NilArray THEN 0 ELSE Len(h[s.arr])

\* The elements s[0], ..., s[len(s)-1].
Elems(h, s) == IF s.arr = NilArray THEN <<>> ELSE SubSeq(h[s.arr], 1, s.len)

\* The capacity append gives the new array of a full slice of capacity c.
GrowCap(c) == IF c = 0 THEN 1 ELSE 2 * c

\* append(s, x): within the capacity the element is written into the backing
\* array s shares; a full slice is copied to a new array, named fresh.
appendString(h, s, x, fresh) ==
  IF s.len < Cap(h, s)
  THEN [heap |-> [h EXCEPT ![s.arr][s.len + 1] = x],
        slice |-> [s EXCEPT !.len = s.len + 1]]
  ELSE [heap |-> Put(h, fresh,
                     Elems(h, s) \o <<x>>
                     \o [k \in 1..(GrowCap(Cap(h, s)) - s.len - 1) |-> <<>>]),
        slice |-> [arr |-> fresh, len |-> s.len + 1]]

(***************************************************************************)
(* Release.SortAvailableUpgrades.                                           *)
(***************************************************************************)
\* fmt.Errorf("%s: invalid semantic version in AvailableUpgrades[%d]=%q: %w", ...)
InvalidUpgrade(ver, idx, upgrade) ==
  [kind |-> "invalid semantic version", arch |-> "", channel |-> <<>>,
   detail |-> <<ver, idx, upgrade>>]

\* The comparison with its arguments exchanged.
lessFlipped(a, b) == Compare(NewVersion(b).v, NewVersion(a).v) < 0

\* The comparison that also holds of equal versions.
lessOrEqual(a, b) == Compare(NewVersion(a).v, NewVersion(b).v) <= 0

\* The less function handed to sort.Slice.
less(a, b) == Compare(NewVersion(a).v, NewVersion(b).v) < 0

\* The inner loop of the insertion sort sort.Slice runs on a short slice: x
\* moves left past every element it is less than.
RECURSIVE insertSorted(_, _)
insertSorted(sorted, x) ==
  IF sorted # <<>> /\ less(x, sorted[Len(sorted)])
  THEN insertSorted(SubSeq(sorted, 1, Len(sorted) - 1), x) \o <<sorted[Len(sorted)]>>
  ELSE sorted \o <<x>>

RECURSIVE insertionSort(_)
insertionSort(list) ==
  IF list = <<>> THEN <<>>
  ELSE insertSorted(insertionSort(SubSeq(list, 1, Len(list) - 1)), list[Len(list)])

\* The 0-based index of the first entry of list that is no version, or -1.
firstInvalid(list) ==
  IF \E k \in 1..Len(list) : ~NewVersion(list[k]).ok
  THEN (CHOOSE k \in 1..Len(list) :
          /\ ~NewVersion(list[k]).ok
          /\ \A j \in 1..(k - 1) : NewVersion(list[j]).ok) - 1
  ELSE -1

\* SortAvailableUpgrades that has nothing to do for fewer than two entries.
SortAvailableUpgradesFromTwo(h, r) ==
  LET list == Elems(h, r.AvailableUpgrades)
      bad == firstInvalid(list)
  IN  IF Len(list) >= 2 /\ bad # -1
      THEN [err |-> InvalidUpgrade(r.Version, bad, list[bad + 1]), heap |-> h]
      ELSE IF list = <<>> THEN [err |-> NoError, heap |-> h]
      ELSE [err |-> NoError,
            heap |-> [h EXCEPT ![r.AvailableUpgrades.arr] =
                        insertionSort(list) \o SubSeq(@, Len(list) + 1, Len(@))]]

\* SortAvailableUpgrades: every entry is parsed, then the entries are sorted
\* in the backing array of the receiver's copy of the slice.
SortAvailableUpgrades(h, r) ==
  LET list == Elems(h, r.AvailableUpgrades)
      bad == firstInvalid(list)
  IN  IF bad # -1
      THEN [err |-> InvalidUpgrade(r.Version, bad, list[bad + 1]), heap |-> h]
      ELSE IF list = <<>> THEN [err |-> NoError, heap |-> h]
      ELSE [err |-> NoError,
            heap |-> [h EXCEPT ![r.AvailableUpgrades.arr] =
                        insertionSort(list) \o SubSeq(@, Len(list) + 1, Len(@))]]

(***************************************************************************)
(* Helpers of the aggregation.                                              *)
(***************************************************************************)
\* The group with the hyphen kept.
groupOfWithHyphen(ch) ==
  LET idx == Index(ch, "-")
  IN  IF idx # -1 THEN SubSeq(ch, 1, idx + 1) ELSE ch

\* The group of a channel: channel[:idx] for the first hyphen, else channel.
groupOf(ch) ==
  LET idx == Index(ch, "-")
  IN  IF idx # -1 THEN SubSeq(ch, 1, idx) ELSE ch

\* ensureGroup without the test for nil.
ensureGroupAnew(agg, group) == Put(agg, group, EmptyMap)

\* if aggregated[group] == nil { aggregated[group] = make(VersionReleases) }
ensureGroup(agg, group) ==
  IF group \notin DOMAIN agg THEN Put(agg, group, EmptyMap) ELSE agg

\* The array append allocates for the release of version in group.
FreshArray(group, version) == <<"new", group, version>>

\* The loop over release.AvailableUpgrades: append to existing's slice each
\* entry it does not hold yet.
RECURSIVE appendMissing(_, _, _, _)
appendMissing(h, s, ups, fresh) ==
  IF ups = <<>> THEN [heap |-> h, slice |-> s]
  ELSE IF ~Contains(Elems(h, s), Head(ups))
  THEN LET a == appendString(h, s, Head(ups), fresh)
       IN  appendMissing(a.heap, a.slice, Tail(ups), fresh)
  ELSE appendMissing(h, s, Tail(ups), fresh)

\* mergeRelease that lets the later release replace the earlier one.
mergeReleaseLastWins(agg, h, group, version, release) ==
  LET sorted == SortAvailableUpgrades(h, release)
  IN  [err |-> sorted.err,
       heap |-> sorted.heap,
       aggregated |-> IF sorted.err # NoError THEN agg
                      ELSE [agg EXCEPT ![group] = Put(@, version, release)]]

\* mergeRelease that takes the fields of the later release and merges the
\* upgrades into it.
mergeReleaseLaterScalars(agg, h, group, version, release) ==
  LET exists == version \in DOMAIN agg[group]
      merged == IF exists
                THEN appendMissing(h, agg[group][version].AvailableUpgrades,
                                   Elems(h, release.AvailableUpgrades),
                                   FreshArray(group, version))
                ELSE [heap |-> h, slice |-> release.AvailableUpgrades]
      releaseToAdd == [release EXCEPT !.AvailableUpgrades = merged.slice]
      sorted == SortAvailableUpgrades(merged.heap, releaseToAdd)
  IN  [err |-> sorted.err,
       heap |-> sorted.heap,
       aggregated |-> IF sorted.err # NoError THEN agg
                      ELSE [agg EXCEPT ![group] = Put(@, version, releaseToAdd)]]

\* The body of the loop over versionMap.
mergeRelease(agg, h, group, version, release) ==
  LET exists == version \in DOMAIN agg[group]
      merged == IF exists
                THEN appendMissing(h, agg[group][version].AvailableUpgrades,
                                   Elems(h, release.AvailableUpgrades),
                                   FreshArray(group, version))
                ELSE [heap |-> h, slice |-> release.AvailableUpgrades]
      releaseToAdd == IF exists
                      THEN [agg[group][version] EXCEPT !.AvailableUpgrades = merged.slice]
                      ELSE release
      sorted == SortAvailableUpgrades(merged.heap, releaseToAdd)
  IN  [err |-> sorted.err,
       heap |-> sorted.heap,
       aggregated |-> IF sorted.err # NoError THEN agg
                      ELSE [agg EXCEPT ![group] = Put(@, version, releaseToAdd)]]

(***************************************************************************)
(* The inputs of the model: start channels, allowed-risk lists, and the     *)
(* nodes, edges and conditional edge groups the Graph Source answers with.  *)
(***************************************************************************)
S41 == <<"s", "-", "4", ".", "1">>
S42 == <<"s", "-", "4", ".", "2">>
S43 == <<"s", "-", "4", ".", "3">>

V411 == <<"4", ".", "1", ".", "1">>
V412 == <<"4", ".", "1", ".", "2">>
V413 == <<"4", ".", "1", ".", "3">>

\* Two well-formed start channels, one without a hyphen, and three whose
\* part after the hyphen is no version (empty, an empty segment, a space).
StartChannels ==
  { S41, S42,
    <<"s", "4", ".", "1">>,
    <<"s", "-">>,
    <<"s", "-", "4", ".", ".", "1">>,
    <<"s", "-", " ", "4", ".", "1">> }

Archs == {"amd64"}

\* The graphURL argument: nil, or the URL of the Graph Source.
NilURL == "nil"

GraphURLs == {NilURL, "https://graph"}

AllowedRiskLists == { <<>>, <<"RiskA">>, <<"RiskB", "RiskA">> }

\* A node as json.Unmarshal builds it: "version" is null (or missing), or a
\* string that UnmarshalText parses with NewVersion.
JsonNode(versionText, payload, hasChannels, channels) ==
  [Version |-> NewVersion(versionText).v, Payload |-> payload,
   HasChannels |-> hasChannels, Channels |-> channels]

NullVersionNode(payload, hasChannels, channels) ==
  [Version |-> NilVersion, Payload |-> payload,
   HasChannels |-> hasChannels, Channels |-> channels]

NodePool ==
  { \* 4.1.1, listed in "s-4.1,s-4.2"
    JsonNode(V411, "p1", TRUE, S41 \o <<",">> \o S42),
    \* 4.1.2, listed in " s-4.3 ,f-4.2,s-4.0,s-4..2,s-4.2": padded with
    \* spaces, another prefix, a lower version, a malformed version
    JsonNode(V412, "p2", TRUE,
             <<" ">> \o S43 \o <<" ", ",", "f", "-", "4", ".", "2", ",">>
             \o <<"s", "-", "4", ".", "0", ",", "s", "-", "4", ".", ".", "2", ",">> \o S42),
    \* "4.2" (its String() is "4.2.0"), listed in "s-4.3,s-4.1"
    JsonNode(<<"4", ".", "2">>, "p3", TRUE, S43 \o <<",">> \o S41),
    \* 4.1.1 again, with another payload and no channels entry (every 4.1.x is
    \* below the start version of s-4.2)
    JsonNode(V411, "p4", FALSE, <<>>),
    \* a null version, listed in "s-4.2"
    NullVersionNode("p6", TRUE, S42) }

\* Edges as JSON arrays of ints: [0,1] and [1,0] are out of range for a graph
\* of fewer than two nodes, [0,0] for a graph of none; [0] has a single
\* element.
EdgePool == { <<0, 0>>, <<0, 1>>, <<1, 0>>, <<0>> }

CondEdge(from, to) == [From |-> from, To |-> to]

GroupPool ==
  { \* one risk; repeats its own edge and the unconditional edges 4.1.1 ->
    \* 4.1.1 and 4.1.1 -> 4.1.2
    [Risks |-> <<"RiskA">>,
     Edges |-> <<CondEdge(V411, V411), CondEdge(V411, V412), CondEdge(V411, V412)>>],
    \* two risks; its target is no version
    [Risks |-> <<"RiskA", "RiskB">>,
     Edges |-> <<CondEdge(V411, <<"4", ".", ".", "3">>)>>],
    \* no risk at all; the second edge starts at "4.2", not "4.2.0"
    [Risks |-> <<>>,
     Edges |-> <<CondEdge(V412, V411), CondEdge(<<"4", ".", "2">>, V411)>>],
    \* a risk no allowed list of the model holds; its target is no node
    [Risks |-> <<"RiskC">>, Edges |-> <<CondEdge(V411, V413)>>] }

SeqsUpTo(S, n) == UNION { [1..k -> S] : k \in 0..n }

GraphSize(g) == Len(g.Nodes) + Len(g.Edges) + Len(g.ConditionalEdges)

\* The graphs of at most n nodes, edges and conditional edge groups together.
Graphs(n) ==
  UNION { UNION { { [Nodes |-> ns, Edges |-> es, ConditionalEdges |-> cs] :
                      cs \in SeqsUpTo(GroupPool, n - Len(ns) - Len(es)) } :
                  es \in SeqsUpTo(EdgePool, n - Len(ns)) } :
          ns \in SeqsUpTo(NodePool, n) }

NoGraph == [Nodes |-> <<>>, Edges |-> <<>>, ConditionalEdges |-> <<>>]

(***************************************************************************)
(* The state of one DiscoverReleases call.                                  *)
(***************************************************************************)
VARIABLES
  pc,                           \* where the call is
  graphURL, startChannel, arch, allowedConditionalEdgeRisks,     \* the arguments
  startChannelPrefix, minVersion,
  queue, queued, processed, releasesByChannel,
  channel, graph,               \* the loop's current channel and its graph
  i,                            \* 0-based index of the inner loop at pc
  result, err,                  \* the returned values
  fetchLog,                     \* the channels asked of the Graph Source, in order
  graphs,                       \* the graph fetched for each channel
  acceptLog,                    \* for each group of the current graph: were its edges applied
  enqueueLog,                   \* the channels in the order they entered queued
  run,                          \* 1 in the first call, 2 in a repeated call
  firstResult, firstErr,        \* what the first call returned
  responses                     \* the graphs the Graph Source gave the first call

(***************************************************************************)
(* The state of one AggregateReleasesByChannelGroupAndSortAvailableUpgrades *)
(* call.  A []string is a slice header (array, length) over the heap, so    *)
(* that releases which share a backing array see each other's writes.       *)
(***************************************************************************)
VARIABLES
  aggPc,                        \* where the call is
  input,                        \* the argument releasesByChannel
  heap,                         \* the backing arrays of the []string slices
  aggregated,
  visited,                      \* the channels the outer range has yielded
  rangeChannel,                 \* the outer range's current channel
  pending,                      \* the versions the inner range has yet to yield
  aggResult, aggErr,            \* the returned values
  heapAtCall                    \* the heap when the call began

discoverVars ==
  <<pc, graphURL, run, firstResult, firstErr, responses, startChannel, arch, allowedConditionalEdgeRisks, startChannelPrefix,
    minVersion, queue, queued, processed, releasesByChannel, channel, graph, i,
    result, err, fetchLog, graphs, acceptLog, enqueueLog>>

aggVars ==
  <<aggPc, input, heap, aggregated, visited, rangeChannel, pending, aggResult,
    aggErr, heapAtCall>>

vars == <<discoverVars, aggVars>>

args == <<graphURL, startChannel, arch, allowedConditionalEdgeRisks>>

\* What the caller keeps from one call to the next.
caller == <<run, firstResult, firstErr, responses>>

\* What a return or a panic leaves untouched.
locals ==
  <<startChannelPrefix, minVersion, queue, queued, processed, releasesByChannel,
    channel, graph, i>>

\* The summed size of the graphs in m at keys.
RECURSIVE TotalSize(_, _)
TotalSize(m, keys) ==
  IF keys = {} THEN 0
  ELSE LET k == CHOOSE x \in keys : TRUE
       IN  GraphSize(m[k]) + TotalSize(m, keys \ {k})

\* What is left of the run's bound after the graphs fetched so far.
SizeLeft == MaxGraphSize - TotalSize(graphs, DOMAIN graphs)

\* No aggregation call is under way.
AggIdle ==
  /\ aggPc = "idle"
  /\ input = EmptyMap
  /\ heap = EmptyMap
  /\ aggregated = EmptyMap
  /\ visited = {}
  /\ rangeChannel = <<>>
  /\ pending = {}
  /\ aggResult = NilResult
  /\ aggErr = NoError
  /\ heapAtCall = EmptyMap

Init ==
  /\ pc = "start"
  /\ graphURL \in GraphURLs
  /\ run = 1
  /\ firstResult = NilResult
  /\ firstErr = NoError
  /\ responses = EmptyMap
  /\ startChannel \in StartChannels
  /\ arch \in Archs
  /\ allowedConditionalEdgeRisks \in AllowedRiskLists
  /\ startChannelPrefix = <<>>
  /\ minVersion = NilVersion
  /\ queue = <<>>
  /\ queued = {}
  /\ processed = {}
  /\ releasesByChannel = EmptyMap
  /\ channel = <<>>
  /\ graph = NoGraph
  /\ i = 0
  /\ result = NilResult
  /\ err = NoError
  /\ fetchLog = <<>>
  /\ graphs = EmptyMap
  /\ acceptLog = <<>>
  /\ enqueueLog = <<>>
  /\ AggIdle

\* return nil, e
ReturnError(e) ==
  /\ pc' = "returned"
  /\ result' = NilResult
  /\ err' = e

\* processed that keeps the entries an earlier call left.
makeProcessedOnce(carried) == carried

\* processed := make(map[string]bool): empty, whatever an earlier call left.
makeProcessed(carried) == {}

\* DiscoverReleases up to its loop: split the start channel, parse its
\* version, set up the queue.
Start ==
  /\ pc = "start"
  /\ LET split == splitChannel(startChannel)
         parsed == NewVersion(split.version)
     IN  IF split.err # NoError
         THEN /\ ReturnError(split.err)
              /\ UNCHANGED <<locals, enqueueLog>>
         ELSE IF ~parsed.ok
         THEN /\ ReturnError(MalformedVersion(split.version))
              /\ UNCHANGED <<locals, enqueueLog>>
         ELSE /\ startChannelPrefix' = split.prefix
              /\ minVersion' = parsed.v
              /\ queue' = <<startChannel>>
              /\ queued' = {startChannel}
              /\ enqueueLog' = <<startChannel>>
              /\ releasesByChannel' = EmptyMap
              /\ processed' = makeProcessed(processed)
              /\ pc' = "loop"
              /\ UNCHANGED <<channel, graph, i, result, err>>
  /\ UNCHANGED <<args, caller, fetchLog, graphs, acceptLog, aggVars>>

\* Where the loop body continues once the loop at phase has run idx times
\* over graph g: the same loop, or the first later loop of the body that has
\* an element, or the head of the queue loop.
RECURSIVE Continue(_, _, _)
Continue(phase, idx, g) ==
  CASE phase = "nodes" ->
         IF idx < Len(g.Nodes) THEN [pc |-> phase, i |-> idx] ELSE Continue("edges", 0, g)
    [] phase = "edges" ->
         IF idx < Len(g.Edges) THEN [pc |-> phase, i |-> idx]
         ELSE Continue("condEdges", 0, g)
    [] OTHER ->
         IF idx < Len(g.ConditionalEdges) THEN [pc |-> phase, i |-> idx]
         ELSE [pc |-> "loop", i |-> idx]

\* The skip test with the wrong map.
isProcessedQueued(ch) == ch \in queued

\* processed[channel] at the head of the loop body.
isProcessed(ch) == ch \in processed

\* fetchGraph that goes on with a nil URL.
urlRequiredNever(u) == FALSE

\* if u == nil, at the head of fetchGraph.
urlRequired(u) == u = NilURL

\* The Graph Source may fail for any channel; asked again by a repeated
\* call, it answers as it answered the first call.
CanFail(ch) == IF run = 1 THEN TRUE ELSE ch \notin DOMAIN responses

\* The graphs the Graph Source may answer with.
Answers(ch) ==
  IF run = 1 THEN Graphs(SizeLeft)
  ELSE IF ch \in DOMAIN responses THEN {responses[ch]}
  ELSE {}

\* The loop's head with a non-empty queue: take the front channel, skip it
\* when processed, else mark it and fetch its graph: fetchGraph refuses a
\* nil URL, or the Graph Source is asked and fails or answers with a graph.
Fetch ==
  /\ pc = "loop"
  /\ queue # <<>>
  /\ LET ch == Head(queue)
     IN  /\ channel' = ch
         /\ queue' = Tail(queue)
         /\ IF isProcessed(ch)
            THEN /\ pc' = "loop"
                 /\ UNCHANGED <<processed, releasesByChannel, graph, i, result, err,
                                fetchLog, graphs, acceptLog>>
            ELSE /\ processed' = processed \cup {ch}
                 /\ acceptLog' = <<>>
                 /\ IF urlRequired(graphURL)
                    THEN /\ ReturnError([FetchError(arch, ch) EXCEPT !.detail = URLRequired])
                         /\ UNCHANGED <<releasesByChannel, graph, i, graphs, fetchLog>>
                    ELSE /\ fetchLog' = Append(fetchLog, ch)
                         /\ \/ /\ CanFail(ch)
                               /\ ReturnError([FetchError(arch, ch)
                                                 EXCEPT !.detail = GraphSourceFailed])
                               /\ UNCHANGED <<releasesByChannel, graph, i, graphs>>
                            \/ \E g \in Answers(ch) :
                                 /\ graph' = g
                                 /\ graphs' = Put(graphs, ch, g)
                                 /\ releasesByChannel' =
                                      IF ch \in DOMAIN releasesByChannel
                                      THEN releasesByChannel
                                      ELSE Put(releasesByChannel, ch, EmptyMap)
                                 /\ pc' = Continue("nodes", 0, g).pc
                                 /\ i' = Continue("nodes", 0, g).i
                                 /\ UNCHANGED <<result, err>>
  /\ UNCHANGED <<args, caller, startChannelPrefix, minVersion, queued, enqueueLog, aggVars>>

\* storeRelease that keeps the release a version already has.
storeReleaseIfAbsent(releases, r) ==
  IF r.Version \in DOMAIN releases THEN releases ELSE Put(releases, r.Version, r)

\* storeRelease with the payload as the key.
storeReleaseUnderPayload(releases, r) == Put(releases, <<r.Payload>>, r)

\* releasesByChannel[channel][r.Version] = r
storeRelease(releases, r) == Put(releases, r.Version, r)

\* The store that writes the release into the table of every channel.
storeInAllChannels(rbc, ch, r) ==
  [c \in DOMAIN rbc |-> storeRelease(rbc[c], r)]

\* The store goes to the table of the loop's channel.
storeInChannel(rbc, ch, r) ==
  [rbc EXCEPT ![ch] = storeRelease(@, r)]

\* One iteration of the loop over graph.Nodes.
ScanNode ==
  /\ pc = "nodes"
  /\ LET node == graph.Nodes[i + 1]
         made == createRelease(node, arch, minVersion)
         listed == discoverNewChannels(node, startChannelPrefix, minVersion)
         enq == enqueueAll(listed, queue, queued, processed)
     IN  /\ releasesByChannel' =
              IF made.found
              THEN storeInChannel(releasesByChannel, channel, made.r)
              ELSE releasesByChannel
         /\ queue' = enq.queue
         /\ queued' = enq.queued
         /\ enqueueLog' = enqueueLog \o FirstOccurrences(listed, enq.queued \ queued)
  /\ pc' = Continue("nodes", i + 1, graph).pc
  /\ i' = Continue("nodes", i + 1, graph).i
  /\ UNCHANGED <<args, caller, startChannelPrefix, minVersion, processed, channel, graph,
                 result, err, fetchLog, graphs, acceptLog, aggVars>>

\* One iteration of the loop of processEdges: it returns an error, panics,
\* or goes on.
ProcessEdge ==
  /\ pc = "edges"
  /\ LET step == processEdge(graph, releasesByChannel[channel], i)
     IN  CASE step.status = "error" ->
                /\ ReturnError(step.err)
                /\ UNCHANGED <<releasesByChannel, i>>
           [] step.status = "panic" ->
                /\ pc' = "panicked"
                /\ UNCHANGED <<releasesByChannel, i, result, err>>
           [] OTHER ->
                /\ releasesByChannel' = [releasesByChannel EXCEPT ![channel] = step.releases]
                /\ pc' = Continue("edges", i + 1, graph).pc
                /\ i' = Continue("edges", i + 1, graph).i
                /\ UNCHANGED <<result, err>>
  /\ UNCHANGED <<args, caller, startChannelPrefix, minVersion, queue, queued, processed,
                 channel, graph, fetchLog, graphs, acceptLog, enqueueLog, aggVars>>

\* One iteration of the outer loop of processConditionalEdges.
ProcessConditionalGroup ==
  /\ pc = "condEdges"
  /\ LET step == processConditionalGroup(graph.ConditionalEdges[i + 1],
                                         allowedConditionalEdgeRisks,
                                         releasesByChannel[channel])
     IN  /\ releasesByChannel' = [releasesByChannel EXCEPT ![channel] = step.releases]
         /\ acceptLog' = Append(acceptLog, step.applied)
  /\ pc' = Continue("condEdges", i + 1, graph).pc
  /\ i' = Continue("condEdges", i + 1, graph).i
  /\ UNCHANGED <<args, caller, startChannelPrefix, minVersion, queue, queued, processed,
                 channel, graph, result, err, fetchLog, graphs, enqueueLog, aggVars>>

\* The queue is empty: return releasesByChannel, nil.
Return ==
  /\ pc = "loop"
  /\ queue = <<>>
  /\ pc' = "returned"
  /\ result' = Result(releasesByChannel)
  /\ err' = NoError
  /\ UNCHANGED <<args, caller, locals, fetchLog, graphs, acceptLog, enqueueLog, aggVars>>

Next ==
  \/ Start
  \/ Fetch
  \/ ScanNode
  \/ ProcessEdge
  \/ ProcessConditionalGroup
  \/ Return

Spec == Init /\ [][Next]_vars

(***************************************************************************)
(* The caller calls DiscoverReleases a second time with the same arguments, *)
(* the Graph Source answering as before.  The variables of the first call   *)
(* keep their last values, to show that the second call takes nothing from  *)
(* them.                                                                    *)
(***************************************************************************)
Rerun ==
  /\ pc = "returned"
  /\ run = 1
  /\ run' = 2
  /\ firstResult' = result
  /\ firstErr' = err
  /\ responses' = graphs
  /\ pc' = "start"
  /\ result' = NilResult
  /\ err' = NoError
  /\ fetchLog' = <<>>
  /\ graphs' = EmptyMap
  /\ acceptLog' = <<>>
  /\ enqueueLog' = <<>>
  /\ UNCHANGED <<args, locals, aggVars>>

RerunNext ==
  \/ Next
  \/ Rerun

RerunSpec == Init /\ [][RerunNext]_vars

(***************************************************************************)
(* The inputs of the aggregation: a ReleasesByChannel of at most            *)
(* MaxReleases releases over a few channels and versions.  Every release    *)
(* has its own backing array, as DiscoverReleases builds them, and no list  *)
(* holds a string twice.                                                    *)
(***************************************************************************)
V414 == <<"4", ".", "1", ".", "4">>

\* Two channels of the group s, and a channel without hyphen that is a group
\* of its own.
AggChannels == <<S41, S42, <<"f">>>>

AggVersions == {V411, V412}

\* The payload, the upgrades and the capacity of their array.
ReleaseValues ==
  { \* no upgrades
    [Payload |-> "p1", ups |-> <<>>, cap |-> 0],
    \* another payload; not in ascending order
    [Payload |-> "p2", ups |-> <<V413, V411>>, cap |-> 2],
    \* three appended targets: append has grown the array from 2 to 4
    [Payload |-> "p1", ups |-> <<V412, V413, V414>>, cap |-> 4],
    \* a conditional edge's target that is no version
    [Payload |-> "p1", ups |-> <<<<"4", ".", ".", "3">>>>, cap |-> 1],
    \* two strings of one version
    [Payload |-> "p1", ups |-> << <<"4", ".", "2", ".", "0">>, <<"4", ".", "2">> >>,
     cap |-> 2] }

\* The version maps of at most n releases.
VersionMaps(n) ==
  UNION { [vs -> ReleaseValues] : vs \in { x \in SUBSET AggVersions : Cardinality(x) <= n } }

\* The inputs over channels of at most n releases, each release given by its
\* value.
RECURSIVE Inputs(_, _)
Inputs(channels, n) ==
  IF channels = <<>> THEN {EmptyMap}
  ELSE Inputs(Tail(channels), n)
       \cup UNION { { Put(rest, Head(channels), m) :
                        rest \in Inputs(Tail(channels), n - Cardinality(DOMAIN m)) } :
                    m \in VersionMaps(n) }

InputArray(ch, version) == <<"in", ch, version>>

\* The releases of a chosen input, and the arrays behind them.
InputOf(shape) ==
  [ch \in DOMAIN shape |->
     [version \in DOMAIN shape[ch] |->
        [Version |-> version, Arch |-> "amd64", Payload |-> shape[ch][version].Payload,
         AvailableUpgrades |->
           IF shape[ch][version].cap = 0 THEN NilSlice
           ELSE [arr |-> InputArray(ch, version), len |-> Len(shape[ch][version].ups)]]]]

HeapOf(shape) ==
  LET arrays == UNION { { <<ch, version>> :
                            version \in { x \in DOMAIN shape[ch] : shape[ch][x].cap > 0 } } :
                        ch \in DOMAIN shape }
  IN  [a \in { InputArray(p[1], p[2]) : p \in arrays } |->
         LET value == shape[a[2]][a[3]]
         IN  value.ups \o [k \in 1..(value.cap - Len(value.ups)) |-> <<>>]]

\* No DiscoverReleases call is under way.
DiscoverIdle ==
  /\ pc = "idle"
  /\ graphURL = NilURL
  /\ run = 1
  /\ firstResult = NilResult
  /\ firstErr = NoError
  /\ responses = EmptyMap
  /\ startChannel = <<>>
  /\ arch = ""
  /\ allowedConditionalEdgeRisks = <<>>
  /\ startChannelPrefix = <<>>
  /\ minVersion = NilVersion
  /\ queue = <<>>
  /\ queued = {}
  /\ processed = {}
  /\ releasesByChannel = EmptyMap
  /\ channel = <<>>
  /\ graph = NoGraph
  /\ i = 0
  /\ result = NilResult
  /\ err = NoError
  /\ fetchLog = <<>>
  /\ graphs = EmptyMap
  /\ acceptLog = <<>>
  /\ enqueueLog = <<>>

\* The call begins: aggregated := make(ReleasesByChannel).
AggInit ==
  /\ DiscoverIdle
  /\ aggPc = "range"
  /\ \E shape \in Inputs(AggChannels, MaxReleases) :
       /\ input = InputOf(shape)
       /\ heap = HeapOf(shape)
       /\ heapAtCall = HeapOf(shape)
  /\ aggregated = EmptyMap
  /\ visited = {}
  /\ rangeChannel = <<>>
  /\ pending = {}
  /\ aggResult = NilResult
  /\ aggErr = NoError

\* The outer range yields a channel it has not yielded yet, in any order;
\* the group's map is made when it is missing.
RangeChannel ==
  /\ aggPc = "range"
  /\ pending = {}
  /\ \E ch \in (DOMAIN input) \ visited :
       /\ rangeChannel' = ch
       /\ visited' = visited \cup {ch}
       /\ pending' = DOMAIN input[ch]
       /\ aggregated' = ensureGroup(aggregated, groupOf(ch))
  /\ UNCHANGED <<aggPc, input, heap, aggResult, aggErr, heapAtCall, discoverVars>>

\* The inner range yields a version of the current channel, in any order:
\* its release is merged and sorted, or the call returns the sort's error.
MergeRelease ==
  /\ aggPc = "range"
  /\ \E version \in pending :
       LET step == mergeRelease(aggregated, heap, groupOf(rangeChannel), version,
                                input[rangeChannel][version])
       IN  /\ heap' = step.heap
           /\ IF step.err # NoError
              THEN /\ aggPc' = "returned"
                   /\ aggResult' = NilResult
                   /\ aggErr' = step.err
                   /\ UNCHANGED <<aggregated, pending>>
              ELSE /\ aggregated' = step.aggregated
                   /\ pending' = pending \ {version}
                   /\ UNCHANGED <<aggPc, aggResult, aggErr>>
  /\ UNCHANGED <<input, visited, rangeChannel, heapAtCall, discoverVars>>

\* Both ranges are over: return aggregated, nil.
AggReturn ==
  /\ aggPc = "range"
  /\ pending = {}
  /\ visited = DOMAIN input
  /\ aggPc' = "returned"
  /\ aggResult' = Result(aggregated)
  /\ aggErr' = NoError
  /\ UNCHANGED <<input, heap, aggregated, visited, rangeChannel, pending, heapAtCall,
                 discoverVars>>

AggNext ==
  \/ RangeChannel
  \/ MergeRelease
  \/ AggReturn

AggSpec == AggInit /\ [][AggNext]_vars

(***************************************************************************)
(* The caller aggregates the map the aggregation returned: the second call  *)
(* gets the releases of the first call's result, their slices over the same *)
(* arrays.  firstResult keeps the first result as it was when returned.     *)
(***************************************************************************)
AggRerun ==
  /\ aggPc = "returned"
  /\ ~aggResult.isNil
  /\ run = 1
  /\ run' = 2
  /\ firstResult' = Result([g \in DOMAIN aggResult.releases |->
                              [v \in DOMAIN aggResult.releases[g] |->
                                 [aggResult.releases[g][v] EXCEPT
                                    !.AvailableUpgrades = Elems(heap, @)]]])
  /\ input' = aggResult.releases
  /\ heapAtCall' = heap
  /\ aggPc' = "range"
  /\ aggregated' = EmptyMap
  /\ visited' = {}
  /\ rangeChannel' = <<>>
  /\ pending' = {}
  /\ aggResult' = NilResult
  /\ aggErr' = NoError
  /\ UNCHANGED <<heap, args, locals, pc, result, err, fetchLog, graphs, acceptLog,
                 enqueueLog, firstErr, responses>>

AggRerunNext ==
  \/ AggNext
  \/ AggRerun

AggRerunSpec == AggInit /\ [][AggRerunNext]_vars

(***************************************************************************)
(* The aggregation of what DiscoverReleases returned: the caller hands the  *)
(* returned map to the aggregation.  Every AvailableUpgrades of it is nil   *)
(* or a slice over an array of its own, grown by the appends that built it. *)
(***************************************************************************)
\* The capacity of a slice built from nil by n appends.
RECURSIVE CapAfter(_)
CapAfter(n) ==
  IF n = 0 THEN 0
  ELSE IF n <= CapAfter(n - 1) THEN CapAfter(n - 1)
  ELSE GrowCap(CapAfter(n - 1))

\* The releases of a returned map with their upgrades as slices, and the
\* arrays behind them.
SlicesOf(rbc) ==
  [c \in DOMAIN rbc |->
     [v \in DOMAIN rbc[c] |->
        [rbc[c][v] EXCEPT !.AvailableUpgrades =
           IF @ = <<>> THEN NilSlice
           ELSE [arr |-> InputArray(c, v), len |-> Len(@)]]]]

ArraysOf(rbc) ==
  LET held == UNION { { <<c, v>> :
                          v \in { x \in DOMAIN rbc[c] : rbc[c][x].AvailableUpgrades # <<>> } } :
                      c \in DOMAIN rbc }
  IN  [a \in { InputArray(p[1], p[2]) : p \in held } |->
         LET ups == rbc[a[2]][a[3]].AvailableUpgrades
         IN  ups \o [k \in 1..(CapAfter(Len(ups)) - Len(ups)) |-> <<>>]]

\* The caller aggregates the result of a successful DiscoverReleases call.
AggStart ==
  /\ pc = "returned"
  /\ ~result.isNil
  /\ aggPc = "idle"
  /\ aggPc' = "range"
  /\ input' = SlicesOf(result.releases)
  /\ heap' = ArraysOf(result.releases)
  /\ heapAtCall' = ArraysOf(result.releases)
  /\ UNCHANGED <<aggregated, visited, rangeChannel, pending, aggResult, aggErr,
                 discoverVars>>

PipelineNext ==
  \/ Next
  \/ AggStart
  \/ AggNext

PipelineSpec == Init /\ [][PipelineNext]_vars

(***************************************************************************)
(* Vocabulary of the properties.                                            *)
(***************************************************************************)
Range(seq) == { seq[k] : k \in 1..Len(seq) }

NoDuplicates(seq) == \A j, k \in 1..Len(seq) : seq[j] = seq[k] => j = k

Succeeded == pc = "returned" /\ ~result.isNil

Ended == pc \in {"returned", "panicked"}

\* The position (from 1) of the first hyphen of s, 0 when s has none.
FirstHyphen(s) ==
  IF \E k \in 1..Len(s) : s[k] = "-"
  THEN CHOOSE k \in 1..Len(s) : s[k] = "-" /\ \A j \in 1..(k - 1) : s[j] # "-"
  ELSE 0

\* The text of s up to and including its first hyphen, and the text after it.
PrefixOf(s) == SubSeq(s, 1, FirstHyphen(s))
TrailingOf(s) == SubSeq(s, FirstHyphen(s) + 1, Len(s))

\* The node's version is present and at least m.
Qualifies(node, m) == node.Version # NilVersion /\ Compare(node.Version, m) >= 0

\* The version strings of the qualifying nodes of graph g.
QualifyingVersions(g, m) ==
  { VersionString(g.Nodes[k].Version) :
      k \in { j \in 1..Len(g.Nodes) : Qualifies(g.Nodes[j], m) } }

\* The trailing version of the start channel.
StartVersion == NewVersion(TrailingOf(startChannel)).v

\* An unconditional edge of fewer than two elements or with an index outside
\* [0, len(nodes)).
BadEdge(g, edge) ==
  \/ Len(edge) < 2
  \/ \E k \in 1..2 : edge[k] < 0 \/ edge[k] >= Len(g.Nodes)

HasBadEdge(g) == \E k \in 1..Len(g.Edges) : BadEdge(g, g.Edges[k])

(***************************************************************************)
(* C1.  After a successful run from a start channel whose trailing version  *)
(* is m, the keys of every channel's table are exactly the version strings  *)
(* of the nodes of that channel's graph whose version is present and >= m;  *)
(* every key parses to a version >= m.                                      *)
(***************************************************************************)
C1_KeysAreTheQualifyingVersions ==
  Succeeded =>
    \A c \in DOMAIN result.releases :
      /\ DOMAIN result.releases[c] = QualifyingVersions(graphs[c], StartVersion)
      /\ \A key \in DOMAIN result.releases[c] :
           /\ NewVersion(key).ok
           /\ Compare(NewVersion(key).v, StartVersion) >= 0

\* A successful run one of whose graphs holds a qualifying node as well as
\* a node with a version below m and a node without version.
C1_Witness ==
  /\ Succeeded
  /\ \E c \in DOMAIN result.releases :
       /\ DOMAIN result.releases[c] # {}
       /\ \E j, k \in 1..Len(graphs[c].Nodes) :
            /\ graphs[c].Nodes[j].Version = NilVersion
            /\ graphs[c].Nodes[k].Version # NilVersion
            /\ Compare(graphs[c].Nodes[k].Version, StartVersion) < 0

(***************************************************************************)
(* C2.  The Graph Source is asked at most once for a channel name; after a  *)
(* successful run every enqueued channel has been asked for exactly once.   *)
(***************************************************************************)
C2_FetchedAtMostOnce ==
  /\ NoDuplicates(fetchLog)
  /\ Succeeded => Range(fetchLog) = queued

\* The channels discoverNewChannels finds in the nodes of graph g.
ListedBy(g) ==
  UNION { Range(discoverNewChannels(g.Nodes[k], startChannelPrefix, minVersion)) :
            k \in 1..Len(g.Nodes) }

\* A successful run in which a second channel is listed by two nodes of the
\* start channel's graph and again, like the start channel, by its own graph.
C2_Witness ==
  /\ Succeeded
  /\ Len(fetchLog) = 2
  /\ LET first == graphs[fetchLog[1]]
         second == graphs[fetchLog[2]]
     IN  /\ \E j, k \in 1..Len(first.Nodes) :
              /\ j # k
              /\ fetchLog[2] \in Range(discoverNewChannels(first.Nodes[j],
                                                          startChannelPrefix, minVersion))
              /\ fetchLog[2] \in Range(discoverNewChannels(first.Nodes[k],
                                                          startChannelPrefix, minVersion))
         /\ {fetchLog[1], fetchLog[2]} \subseteq ListedBy(second)

(***************************************************************************)
(* C3.  The call terminates by returning: once it has ended, the result or  *)
(* an error has been returned.  (Every run is finite: a fetch takes a       *)
(* channel never fetched before, and each inner loop runs over a list.)     *)
(***************************************************************************)
C3_EndsByReturning == Ended => pc = "returned"

(***************************************************************************)
(* C4.  In every state, and in the returned result, no AvailableUpgrades    *)
(* list holds the same version string twice.                                *)
(***************************************************************************)
C4_NoDuplicateUpgrades ==
  /\ \A c \in DOMAIN releasesByChannel : \A v \in DOMAIN releasesByChannel[c] :
       NoDuplicates(releasesByChannel[c][v].AvailableUpgrades)
  /\ \A c \in DOMAIN result.releases : \A v \in DOMAIN result.releases[c] :
       NoDuplicates(result.releases[c][v].AvailableUpgrades)

\* A returned table built from the unconditional edge 0 -> 0 and an accepted
\* group that repeats it and adds another target twice.
C4_Witness ==
  /\ Succeeded
  /\ \E c \in DOMAIN result.releases :
       /\ graphs[c].Edges = <<<<0, 0>>>>
       /\ Len(graphs[c].ConditionalEdges) = 1
       /\ Len(graphs[c].ConditionalEdges[1].Edges) = 3
       /\ V411 \in DOMAIN result.releases[c]
       /\ result.releases[c][V411].AvailableUpgrades = <<V411, V412>>

(***************************************************************************)
(* C5.  The edges of a conditional edge group are applied if and only if    *)
(* every risk name of the group is in the allowed list, as a set: whatever  *)
(* the order of the list, also when the list holds more risks.              *)
(***************************************************************************)
RiskNames(group) == Range(group.Risks)

C5_AppliedIffAllRisksAllowed ==
  \A k \in 1..Len(acceptLog) :
    acceptLog[k] <=>
      RiskNames(graph.ConditionalEdges[k]) \subseteq Range(allowedConditionalEdgeRisks)

\* The group of RiskA, RiskB applied under the allowed list RiskB, RiskA,
\* which changed the table.
C5_Witness ==
  /\ pc = "loop"
  /\ Len(acceptLog) = 1
  /\ acceptLog[1]
  /\ graph.ConditionalEdges[1].Risks = <<"RiskA", "RiskB">>
  /\ allowedConditionalEdgeRisks = <<"RiskB", "RiskA">>
  /\ \E v \in DOMAIN releasesByChannel[channel] :
       releasesByChannel[channel][v].AvailableUpgrades # <<>>

(***************************************************************************)
(* C6.  As stated: a group none of whose risk names is in the allowed list  *)
(* is never applied.                                                        *)
(***************************************************************************)
ZeroOverlap(group) == RiskNames(group) \cap Range(allowedConditionalEdgeRisks) = {}

C6_ZeroOverlapNeverApplied ==
  \A k \in 1..Len(acceptLog) : ZeroOverlap(graph.ConditionalEdges[k]) => ~acceptLog[k]

\* C6 amended: a group that names at least one risk, none of them in the
\* allowed list, is never applied.
C6_ZeroOverlapOfSomeRiskNeverApplied ==
  \A k \in 1..Len(acceptLog) :
    (graph.ConditionalEdges[k].Risks # <<>> /\ ZeroOverlap(graph.ConditionalEdges[k]))
      => ~acceptLog[k]

\* The group of RiskC passed over under a non-empty allowed list, its source
\* release in the table.
C6_Witness ==
  /\ pc = "loop"
  /\ Len(acceptLog) = 1
  /\ ~acceptLog[1]
  /\ graph.ConditionalEdges[1].Risks = <<"RiskC">>
  /\ allowedConditionalEdgeRisks # <<>>
  /\ V411 \in DOMAIN releasesByChannel[channel]
  /\ releasesByChannel[channel][V411].AvailableUpgrades = <<>>

(***************************************************************************)
(* C7.  When the Graph Source fails for a channel, that fetch is the last,  *)
(* and the call returns a nil result and an error naming the architecture   *)
(* and the channel.                                                         *)
(***************************************************************************)
\* The channels the Graph Source was asked for and gave no graph.
FailedFetches == Range(fetchLog) \ DOMAIN graphs

C7_FetchFailureAborts ==
  \A c \in FailedFetches :
    /\ pc = "returned"
    /\ result = NilResult
    /\ err.kind = "error fetching graph"
    /\ err.arch = arch
    /\ err.channel = c
    /\ c = fetchLog[Len(fetchLog)]

\* The fetch of a discovered channel fails after the start channel's table
\* has been filled.
C7_Witness ==
  /\ pc = "returned"
  /\ Len(fetchLog) = 2
  /\ fetchLog[2] \in FailedFetches
  /\ releasesByChannel[fetchLog[1]] # EmptyMap

(***************************************************************************)
(* C8.  A run that fetched a graph with an unconditional edge of fewer than *)
(* two elements or with an index out of range ends by returning an error    *)
(* and a nil result.                                                        *)
(***************************************************************************)
C8_BadEdgeReturnsError ==
  (Ended /\ \E c \in DOMAIN graphs : HasBadEdge(graphs[c]))
    => (pc = "returned" /\ err # NoError /\ result = NilResult)

(***************************************************************************)
(* C9.  A start channel without hyphen, or whose text after the first       *)
(* hyphen is no version, makes the call return a nil result and an error    *)
(* without asking the Graph Source; the first error is "invalid channel     *)
(* format" and the second is not.                                           *)
(***************************************************************************)
C9_BadStartChannelFailsFast ==
  pc # "start" =>
    /\ FirstHyphen(startChannel) = 0 =>
         /\ pc = "returned"
         /\ result = NilResult
         /\ err.kind = "invalid channel format"
         /\ fetchLog = <<>>
    /\ (FirstHyphen(startChannel) # 0 /\ ~NewVersion(TrailingOf(startChannel)).ok) =>
         /\ pc = "returned"
         /\ result = NilResult
         /\ err # NoError
         /\ err.kind # "invalid channel format"
         /\ fetchLog = <<>>

\* The call has returned for a start channel whose text after the hyphen is
\* no version.
C9_Witness ==
  /\ pc = "returned"
  /\ FirstHyphen(startChannel) # 0
  /\ TrailingOf(startChannel) # <<>>
  /\ ~NewVersion(TrailingOf(startChannel)).ok
  /\ err.kind = "malformed version"

(***************************************************************************)
(* C10.  Every channel enqueued or fetched, the start channel aside, begins *)
(* with the start channel's prefix and has a trailing version at least the  *)
(* start channel's.                                                         *)
(***************************************************************************)
C10_DiscoveredChannelsSharePrefix ==
  \A c \in (queued \cup Range(queue) \cup Range(fetchLog)) \ {startChannel} :
    /\ HasPrefix(c, PrefixOf(startChannel))
    /\ NewVersion(TrailingOf(c)).ok
    /\ Compare(NewVersion(TrailingOf(c)).v, StartVersion) >= 0

\* A successful run whose start graph lists s-4.3 and s-4.2 beside f-4.2,
\* s-4.0 and s-4..2: only the first two are fetched.
C10_Witness ==
  /\ Succeeded
  /\ startChannel = S41
  /\ \E k \in 1..Len(graphs[S41].Nodes) :
       /\ graphs[S41].Nodes[k].HasChannels
       /\ <<"f", "-", "4", ".", "2">> \in
            { TrimSpace(x) : x \in Range(Split(graphs[S41].Nodes[k].Channels, ",")) }
       /\ <<"s", "-", "4", ".", "0">> \in
            { TrimSpace(x) : x \in Range(Split(graphs[S41].Nodes[k].Channels, ",")) }
  /\ fetchLog = <<S41, S43, S42>>

(***************************************************************************)
(* C11.  Channels are fetched in the order in which they were first         *)
(* enqueued: the start channel first, and the channels fetched so far are   *)
(* the first ones of the enqueue order, in that order.                      *)
(***************************************************************************)
C11_FetchedInEnqueueOrder ==
  /\ fetchLog # <<>> => fetchLog[1] = startChannel
  /\ Len(fetchLog) <= Len(enqueueLog)
  /\ fetchLog = SubSeq(enqueueLog, 1, Len(fetchLog))

\* The start graph's first node lists s-4.3 and its second node s-4.2: the
\* three channels are fetched in that order.
C11_Witness ==
  /\ Succeeded
  /\ Len(fetchLog) = 3
  /\ Len(graphs[fetchLog[1]].Nodes) = 2
  /\ fetchLog[2] \in ListedBy([graphs[fetchLog[1]] EXCEPT !.Nodes = <<@[1]>>])
  /\ fetchLog[3] \notin ListedBy([graphs[fetchLog[1]] EXCEPT !.Nodes = <<@[1]>>])
  /\ enqueueLog = fetchLog

(***************************************************************************)
(* C12.  A listed channel name with the start prefix whose trailing version *)
(* does not parse is never enqueued and aborts nothing: every qualifying    *)
(* name of a scanned node is enqueued, wherever it stands in the list, and  *)
(* a run that saw such a name ends otherwise than with a result only by a   *)
(* failed fetch or in the unconditional edges.                              *)
(***************************************************************************)
\* The names a node lists, trimmed.
ListedNames(node) ==
  IF node.HasChannels THEN { TrimSpace(x) : x \in Range(Split(node.Channels, ",")) }
  ELSE {}

\* The text of a listed name after the start channel's prefix, trimmed.
ListedVersion(name) ==
  TrimSpace(SubSeq(name, Len(PrefixOf(startChannel)) + 1, Len(name)))

\* The listed names with the start prefix whose trailing version is none.
MalformedListed(node) ==
  { name \in ListedNames(node) :
      HasPrefix(name, PrefixOf(startChannel)) /\ ~NewVersion(ListedVersion(name)).ok }

\* The listed names with the start prefix and a version at least the start's.
QualifyingListed(node) ==
  { name \in ListedNames(node) :
      /\ HasPrefix(name, PrefixOf(startChannel))
      /\ NewVersion(ListedVersion(name)).ok
      /\ Compare(NewVersion(ListedVersion(name)).v, StartVersion) >= 0 }

\* How many nodes of the graph of channel c have been scanned.
Scanned(c) == IF c = channel /\ pc = "nodes" THEN i ELSE Len(graphs[c].Nodes)

ScannedNodes == UNION { { graphs[c].Nodes[k] : k \in 1..Scanned(c) } : c \in DOMAIN graphs }

C12_MalformedListedChannelIsSkipped ==
  /\ \A node \in ScannedNodes :
       /\ MalformedListed(node) \cap queued = {}
       /\ QualifyingListed(node) \subseteq queued
  /\ (Ended /\ \E node \in ScannedNodes : MalformedListed(node) # {}) =>
       \/ Succeeded
       \/ FailedFetches # {}
       \/ pc = "panicked" /\ graph.Edges # <<>>
       \/ pc = "returned" /\ err.kind \in {"invalid edge format", "invalid edge indices"}

\* A successful run whose start graph lists s-4..2 before s-4.2: s-4.2 was
\* fetched all the same, s-4..2 was not, and the node's release was made.
C12_Witness ==
  /\ Succeeded
  /\ startChannel = S41
  /\ \E k \in 1..Len(graphs[S41].Nodes) :
       /\ <<"s", "-", "4", ".", ".", "2">> \in MalformedListed(graphs[S41].Nodes[k])
       /\ S42 \in QualifyingListed(graphs[S41].Nodes[k])
  /\ S42 \in DOMAIN result.releases
  /\ <<"s", "-", "4", ".", ".", "2">> \notin DOMAIN result.releases
  /\ V412 \in DOMAIN result.releases[S41]

(***************************************************************************)
(* C20.  After a successful run, the upgrades of the release of version v   *)
(* in channel c are, as a set, the version strings of the targets of the    *)
(* unconditional edges of c's graph whose source node has version v, and    *)
(* the 'to' strings of the edges from v of the accepted groups of c's       *)
(* graph; without such an edge the list is empty.                           *)
(***************************************************************************)
\* The targets of the unconditional edges of g from a node of version v.
UnconditionalTargets(g, v) ==
  { VersionString(g.Nodes[g.Edges[k][2] + 1].Version) :
      k \in { j \in 1..Len(g.Edges) :
                VersionString(g.Nodes[g.Edges[j][1] + 1].Version) = v } }

\* The targets of the edges from v of the groups of g all of whose risks
\* are allowed.
AcceptedTargets(g, v) ==
  UNION { { g.ConditionalEdges[k].Edges[j].To :
              j \in { e \in 1..Len(g.ConditionalEdges[k].Edges) :
                        g.ConditionalEdges[k].Edges[e].From = v } } :
          k \in { n \in 1..Len(g.ConditionalEdges) :
                    RiskNames(g.ConditionalEdges[n])
                      \subseteq Range(allowedConditionalEdgeRisks) } }

C20_UpgradesAreTheEdgeTargets ==
  Succeeded =>
    \A c \in DOMAIN result.releases : \A v \in DOMAIN result.releases[c] :
      Range(result.releases[c][v].AvailableUpgrades)
        = UnconditionalTargets(graphs[c], v) \cup AcceptedTargets(graphs[c], v)

\* The graph of nodes 4.1.1 and 4.1.2 and the edge 0 -> 1: the release of
\* 4.1.1 lists 4.1.2 and the release of 4.1.2 lists nothing.
C20_Witness ==
  /\ Succeeded
  /\ \E c \in DOMAIN result.releases :
       /\ graphs[c].Edges = <<<<0, 1>>>>
       /\ DOMAIN result.releases[c] = {V411, V412}
       /\ result.releases[c][V411].AvailableUpgrades = <<V412>>
       /\ result.releases[c][V412].AvailableUpgrades = <<>>

(***************************************************************************)
(* Vocabulary of the properties of the aggregation.                         *)
(***************************************************************************)
\* A ReleasesByChannel with each slice replaced by its elements in heap h.
View(h, rbc) ==
  [c \in DOMAIN rbc |->
     [v \in DOMAIN rbc[c] |->
        [rbc[c][v] EXCEPT !.AvailableUpgrades = Elems(h, @)]]]

\* The input as it was when the call began, and as it is now.
InputAtCall == View(heapAtCall, input)
InputNow == View(heap, input)

AggReturned == aggPc = "returned"

AggSucceeded == aggPc = "returned" /\ ~aggResult.isNil

\* The returned map.
Output == View(heap, aggResult.releases)

\* The name of a channel up to its first hyphen, the whole name without one.
GroupKey(c) == IF FirstHyphen(c) = 0 THEN c ELSE SubSeq(c, 1, FirstHyphen(c) - 1)

\* The input channels of group g, and those of them that hold version v.
ChannelsOf(g) == { c \in DOMAIN input : GroupKey(c) = g }
ChannelsWith(g, v) == { c \in ChannelsOf(g) : v \in DOMAIN input[c] }

\* Every entry is a version and none is above a later one.
SortedAscending(list) ==
  /\ \A k \in 1..Len(list) : NewVersion(list[k]).ok
  /\ \A j, k \in 1..Len(list) :
       j < k => Compare(NewVersion(list[j]).v, NewVersion(list[k]).v) <= 0

\* Some AvailableUpgrades entry of the input is no version.
SomeEntryUnparsable ==
  \E c \in DOMAIN InputAtCall : \E v \in DOMAIN InputAtCall[c] :
    \E k \in 1..Len(InputAtCall[c][v].AvailableUpgrades) :
      ~NewVersion(InputAtCall[c][v].AvailableUpgrades[k]).ok

C14_AggregatedUpgradesAreTheUnion ==
  AggSucceeded =>
    \A g \in DOMAIN Output : \A v \in DOMAIN Output[g] :
      Range(Output[g][v].AvailableUpgrades)
        = UNION { Range(InputAtCall[c][v].AvailableUpgrades) : c \in ChannelsWith(g, v) }

\* Version 4.1.1 is in both channels of group s with upgrade lists neither
\* of which holds the other, and version 4.1.2 in one channel only.
C14_Witness ==
  /\ AggSucceeded
  /\ Cardinality(ChannelsWith(<<"s">>, V411)) = 2
  /\ Cardinality(ChannelsWith(<<"s">>, V412)) = 1
  /\ \E c, d \in ChannelsWith(<<"s">>, V411) :
       /\ Range(InputAtCall[c][V411].AvailableUpgrades)
            \ Range(InputAtCall[d][V411].AvailableUpgrades) # {}
       /\ Range(InputAtCall[d][V411].AvailableUpgrades)
            \ Range(InputAtCall[c][V411].AvailableUpgrades) # {}
  /\ \E c \in ChannelsWith(<<"s">>, V412) : InputAtCall[c][V412].AvailableUpgrades # <<>>

(***************************************************************************)
(* C16.  Aggregation filters no version: after a successful call the keys   *)
(* of a group's map are the union of the keys of the maps of its input      *)
(* channels, so every (channel, version) of the input is in the output.     *)
(***************************************************************************)
C16_NoVersionIsFiltered ==
  AggSucceeded =>
    /\ \A g \in DOMAIN Output :
         DOMAIN Output[g] = UNION { DOMAIN input[c] : c \in ChannelsOf(g) }
    /\ \A c \in DOMAIN input : \A v \in DOMAIN input[c] :
         /\ GroupKey(c) \in DOMAIN Output
         /\ v \in DOMAIN Output[GroupKey(c)]

\* The two channels of group s hold different versions, one of them alone
\* 4.1.1 and the other alone 4.1.2.
C16_Witness ==
  /\ AggSucceeded
  /\ {S41, S42} \subseteq DOMAIN input
  /\ \E c, d \in {S41, S42} : DOMAIN input[c] = {V411} /\ DOMAIN input[d] = {V412}
  /\ DOMAIN Output[<<"s">>] = {V411, V412}

(***************************************************************************)
(* C17.  After a successful call the keys of the returned map are the group *)
(* keys of the input channels: the name up to, without, its first hyphen,   *)
(* and the whole name of a channel without hyphen.                          *)
(***************************************************************************)
C17_KeysAreTheGroupKeys ==
  AggSucceeded => DOMAIN Output = { GroupKey(c) : c \in DOMAIN input }

\* s-4.1, s-4.2 and f are aggregated to s and f.
C17_Witness ==
  /\ AggSucceeded
  /\ DOMAIN input = {S41, S42, <<"f">>}
  /\ DOMAIN Output = {<<"s">>, <<"f">>}
  /\ \A c \in DOMAIN input : input[c] # EmptyMap

(***************************************************************************)
(* C18.  When an AvailableUpgrades entry of some input release is no        *)
(* version, the call returns an error and a nil map, whatever channel and   *)
(* version the entry is in.                                                 *)
(***************************************************************************)
C18_UnparsableUpgradeIsFatal ==
  (AggReturned /\ SomeEntryUnparsable) => (aggResult = NilResult /\ aggErr # NoError)

\* The call returns the error after it has merged another release.
C18_Witness ==
  /\ AggReturned
  /\ SomeEntryUnparsable
  /\ aggErr.kind = "invalid semantic version"
  /\ \E g \in DOMAIN aggregated : aggregated[g] # EmptyMap

(***************************************************************************)
(* C15.  The returned map does not depend on the order in which the         *)
(* channels and their versions are ranged over: the call returns what the   *)
(* same call returns when it ranges over them in one fixed order (all       *)
(* fields of every release, the upgrade lists included).                    *)
(***************************************************************************)
\* The loop over versionMap of channel ch, run over versions in a fixed
\* order from the state st of the call.
RECURSIVE aggregateVersions(_, _, _)
aggregateVersions(st, ch, versions) ==
  IF versions = {} \/ st.err # NoError THEN st
  ELSE LET version == CHOOSE v \in versions : TRUE
           step == mergeRelease(st.aggregated, st.heap, groupOf(ch), version,
                                input[ch][version])
       IN  aggregateVersions(step, ch, versions \ {version})

\* The loop over releasesByChannel, run over channels in a fixed order.
RECURSIVE aggregateChannels(_, _)
aggregateChannels(st, channels) ==
  IF channels = {} \/ st.err # NoError THEN st
  ELSE LET ch == CHOOSE c \in channels : TRUE
       IN  aggregateChannels(
             aggregateVersions([st EXCEPT !.aggregated = ensureGroup(@, groupOf(ch))],
                               ch, DOMAIN input[ch]),
             channels \ {ch})

\* The call on the same input in the fixed order.
InFixedOrder ==
  aggregateChannels([err |-> NoError, heap |-> heapAtCall, aggregated |-> EmptyMap],
                    DOMAIN input)

C15_OrderDoesNotMatter ==
  AggReturned =>
    IF InFixedOrder.err # NoError THEN aggResult.isNil
    ELSE /\ ~aggResult.isNil
         /\ Output = View(InFixedOrder.heap, InFixedOrder.aggregated)

(***************************************************************************)
(* C19.  The call leaves its input unchanged: when it has returned, with or *)
(* without error, every release of the input has the AvailableUpgrades it   *)
(* had when the call began, in the same order.                              *)
(***************************************************************************)
C19_InputUnchanged == AggReturned => InputNow = InputAtCall

(***************************************************************************)
(* C21.  The unconditional edges the latest client has applied to a         *)
(* channel's table leave it as the earlier client's processEdges, which     *)
(* tests both nodes of an edge against the minimum version, leaves the same *)
(* table after the same edges.                                              *)
(***************************************************************************)
\* A table as the node loop leaves it: every release without upgrades.
WithoutUpgrades(releases) ==
  [v \in DOMAIN releases |-> [releases[v] EXCEPT !.AvailableUpgrades = <<>>]]

\* The table of the current channel holds the effect of unconditional edges
\* only, and of how many.
OnlyEdgesApplied ==
  /\ channel \in DOMAIN graphs
  /\ \/ pc = "edges"
     \/ pc = "condEdges" /\ i = 0
     \/ pc = "loop" /\ graphs[channel].ConditionalEdges = <<>>

EdgesApplied == IF pc = "edges" THEN i ELSE Len(graphs[channel].Edges)

C21_SameTablesAsEarlierClient ==
  OnlyEdgesApplied =>
    LET earlier == processEdgesEarlier(graphs[channel], minVersion,
                                       WithoutUpgrades(releasesByChannel[channel]),
                                       EdgesApplied)
    IN  /\ earlier.status = "ok"
        /\ earlier.releases = releasesByChannel[channel]

(***************************************************************************)
(* C22.  A step of edge resolution, unconditional or conditional, adds and  *)
(* removes no channel and no key of the channel's table, leaves the tables  *)
(* of the other channels and the version, arch and payload of every release *)
(* as they were, and changes a release at most by appending, to its         *)
(* AvailableUpgrades, targets of the step's edges that start at its         *)
(* version; so an edge whose source version has no release changes nothing. *)
(***************************************************************************)
IsPrefix(s, t) == Len(s) <= Len(t) /\ SubSeq(t, 1, Len(s)) = s

\* The targets of the edges of the step at pc that start at version v.
StepTargets(v) ==
  IF pc = "edges"
  THEN LET edge == graph.Edges[i + 1]
           n == Len(graph.Nodes)
       IN  IF Len(edge) < 2 THEN {}
           ELSE IF edge[1] >= n \/ edge[2] >= n THEN {}
           ELSE IF graph.Nodes[edge[1] + 1].Version = NilVersion THEN {}
           ELSE IF graph.Nodes[edge[2] + 1].Version = NilVersion THEN {}
           ELSE IF VersionString(graph.Nodes[edge[1] + 1].Version) # v THEN {}
           ELSE {VersionString(graph.Nodes[edge[2] + 1].Version)}
  ELSE LET group == graph.ConditionalEdges[i + 1]
       IN  { group.Edges[k].To :
               k \in { j \in 1..Len(group.Edges) : group.Edges[j].From = v } }

EdgeResolutionFrame ==
  pc \in {"edges", "condEdges"} =>
       /\ DOMAIN releasesByChannel' = DOMAIN releasesByChannel
       /\ \A c \in DOMAIN releasesByChannel \ {channel} :
            releasesByChannel'[c] = releasesByChannel[c]
       /\ DOMAIN releasesByChannel'[channel] = DOMAIN releasesByChannel[channel]
       /\ \A v \in DOMAIN releasesByChannel[channel] :
            LET old == releasesByChannel[channel][v]
                new == releasesByChannel'[channel][v]
            IN  /\ new.Version = old.Version
                /\ new.Arch = old.Arch
                /\ new.Payload = old.Payload
                /\ IsPrefix(old.AvailableUpgrades, new.AvailableUpgrades)
                /\ \A k \in (Len(old.AvailableUpgrades) + 1)..Len(new.AvailableUpgrades) :
                     new.AvailableUpgrades[k] \in StepTargets(v)

C22_EdgeResolutionFrame == [][EdgeResolutionFrame]_vars

\* A successful run over a graph with an unconditional edge that added an
\* upgrade and an accepted group one of whose edges starts at a version
\* without release: the table has the keys the node loop gave it.
C22_Witness ==
  /\ Succeeded
  /\ \E c \in DOMAIN result.releases :
       /\ graphs[c].Edges # <<>>
       /\ \E v \in DOMAIN result.releases[c] :
            /\ result.releases[c][v].AvailableUpgrades # <<>>
            /\ DOMAIN result.releases[c] = {v}
       /\ \E k \in 1..Len(graphs[c].ConditionalEdges) :
            /\ RiskNames(graphs[c].ConditionalEdges[k])
                 \subseteq Range(allowedConditionalEdgeRisks)
            /\ \E j \in 1..Len(graphs[c].ConditionalEdges[k].Edges) :
                 graphs[c].ConditionalEdges[k].Edges[j].From
                   \notin DOMAIN result.releases[c]

(***************************************************************************)
(* C23.  A node without version or below the minimum yields no release and  *)
(* makes nothing fail: a run that fetched a graph with such a node ends by   *)
(* returning, and when it returns an error, a fetch failed or some graph    *)
(* has an unconditional edge of fewer than two elements or out of range.    *)
(***************************************************************************)
\* Some fetched graph has a node that does not qualify.
SomeNodeDropped ==
  \E c \in DOMAIN graphs : \E k \in 1..Len(graphs[c].Nodes) :
    ~Qualifies(graphs[c].Nodes[k], StartVersion)

C23_DroppedNodeNeverFails ==
  /\ \A c \in DOMAIN graphs : \A k \in 1..Scanned(c) :
       LET node == graphs[c].Nodes[k]
       IN  (node.Version # NilVersion /\ ~Qualifies(node, StartVersion))
             => VersionString(node.Version) \notin DOMAIN releasesByChannel[c]
  /\ (Ended /\ SomeNodeDropped) =>
       /\ pc = "returned"
       /\ err # NoError =>
            (FailedFetches # {} \/ \E c \in DOMAIN graphs : HasBadEdge(graphs[c]))

(***************************************************************************)
(* C24.  As stated: with a nil graph URL the call returns a nil result and  *)
(* an error that contains "graph URL is required", and the Graph Source is  *)
(* asked for no channel.                                                    *)
(***************************************************************************)
C24_NilURLReturnsURLRequired ==
  (graphURL = NilURL /\ Ended) =>
    /\ pc = "returned"
    /\ result = NilResult
    /\ err.detail = URLRequired
    /\ fetchLog = <<>>

\* The start channel has a hyphen and a version after it.
StartChannelWellFormed ==
  FirstHyphen(startChannel) # 0 /\ NewVersion(TrailingOf(startChannel)).ok

\* C24 amended: with a nil graph URL the Graph Source is asked for no
\* channel and the call returns a nil result and an error; for a well-formed
\* start channel the error is the fetch error of the start channel and
\* contains "graph URL is required", else it is the start channel's error.
C24_NilURLFailsBeforeAnyRequest ==
  graphURL = NilURL =>
    /\ fetchLog = <<>>
    /\ Ended =>
         /\ pc = "returned"
         /\ result = NilResult
         /\ err # NoError
         /\ IF StartChannelWellFormed
            THEN /\ err.kind = "error fetching graph"
                 /\ err.channel = startChannel
                 /\ err.detail = URLRequired
            ELSE err.kind \in {"invalid channel format", "malformed version"}

\* The call with a nil URL and the start channel s-4.1 has returned the
\* error of fetchGraph.
C24_Witness ==
  /\ graphURL = NilURL
  /\ startChannel = S41
  /\ pc = "returned"
  /\ err.detail = URLRequired
  /\ processed = {S41}

(***************************************************************************)
(* C25.  Every string in an AvailableUpgrades list of a successful run's    *)
(* result is a version, so SortAvailableUpgrades, which the aggregation     *)
(* calls on every release, returns no error for any release of the result.  *)
(***************************************************************************)
\* SortAvailableUpgrades called on release r of channel c, its upgrades in
\* an array of their own.
SortOf(c, r) ==
  SortAvailableUpgrades(
    Put(EmptyMap, FreshArray(c, r.Version), r.AvailableUpgrades),
    [r EXCEPT !.AvailableUpgrades = [arr |-> FreshArray(c, r.Version), len |-> Len(@)]])

C25_EveryUpgradeIsAVersion ==
  Succeeded =>
    \A c \in DOMAIN result.releases : \A v \in DOMAIN result.releases[c] :
      /\ \A k \in 1..Len(result.releases[c][v].AvailableUpgrades) :
           NewVersion(result.releases[c][v].AvailableUpgrades[k]).ok
      /\ SortOf(c, result.releases[c][v]).err = NoError

(***************************************************************************)
(* C26.  A release of the aggregated map has the version, arch and payload  *)
(* of the release that was merged first under its group and version: a step *)
(* of the call changes these fields of no aggregated release, and a release *)
(* it adds has the fields of the current channel's release.                 *)
(***************************************************************************)
Scalars(r) == <<r.Version, r.Arch, r.Payload>>

FirstSeenWins ==
  /\ \A g \in DOMAIN aggregated :
       /\ g \in DOMAIN aggregated'
       /\ \A v \in DOMAIN aggregated[g] :
            /\ v \in DOMAIN aggregated'[g]
            /\ Scalars(aggregated'[g][v]) = Scalars(aggregated[g][v])
  /\ \A g \in DOMAIN aggregated' : \A v \in DOMAIN aggregated'[g] :
       (g \notin DOMAIN aggregated \/ v \notin DOMAIN aggregated[g]) =>
         /\ g = groupOf(rangeChannel)
         /\ v \in DOMAIN input[rangeChannel]
         /\ Scalars(aggregated'[g][v]) = Scalars(input[rangeChannel][v])

C26_FirstSeenWinsForScalars == [][FirstSeenWins]_vars

\* Channels s-4.1 and s-4.2 hold 4.1.1 with different payloads: the result
\* has the payload of s-4.1 and upgrades that only s-4.2 lists.
C26_Witness ==
  /\ AggSucceeded
  /\ {S41, S42} \subseteq DOMAIN input
  /\ V411 \in DOMAIN input[S41] \cap DOMAIN input[S42]
  /\ input[S41][V411].Payload # input[S42][V411].Payload
  /\ Output[<<"s">>][V411].Payload = input[S41][V411].Payload
  /\ Range(Output[<<"s">>][V411].AvailableUpgrades)
       \ Range(InputAtCall[S41][V411].AvailableUpgrades) # {}

(***************************************************************************)
(* C27.  After a successful run the keys of the result are the channels     *)
(* that were fetched, and these are the start channel and every channel     *)
(* that a node of the graph of such a channel lists with the start prefix   *)
(* and a version at least the start's; a fetched channel whose graph has no *)
(* qualifying node has an empty table.                                      *)
(***************************************************************************)
\* The channels the nodes of graph g make discoverable.
Discoverable(g) == UNION { QualifyingListed(g.Nodes[k]) : k \in 1..Len(g.Nodes) }

\* The channels of S and all that are discoverable from them through the
\* fetched graphs.
RECURSIVE DiscoverableFrom(_)
DiscoverableFrom(S) ==
  LET next == S \cup UNION { Discoverable(graphs[c]) : c \in S \cap DOMAIN graphs }
  IN  IF next = S THEN S ELSE DiscoverableFrom(next)

C27_KeysAreTheFetchedChannels ==
  Succeeded =>
    /\ DOMAIN result.releases = Range(fetchLog)
    /\ Range(fetchLog) = DOMAIN graphs
    /\ Range(fetchLog) = DiscoverableFrom({startChannel})
    /\ \A c \in Range(fetchLog) :
         QualifyingVersions(graphs[c], StartVersion) = {} => result.releases[c] = EmptyMap

\* A successful run that fetched a second channel through a node of the
\* first, the second channel's graph holding only a node below the minimum:
\* its table is in the result, empty.
C27_Witness ==
  /\ Succeeded
  /\ Len(fetchLog) = 2
  /\ fetchLog[2] \in Discoverable(graphs[fetchLog[1]])
  /\ graphs[fetchLog[2]].Nodes # <<>>
  /\ fetchLog[2] \in DOMAIN result.releases
  /\ result.releases[fetchLog[2]] = EmptyMap
  /\ result.releases[fetchLog[1]] # EmptyMap

(***************************************************************************)
(* C28.  When several qualifying nodes of a graph have the same version     *)
(* string, the channel's table holds one release for it, with the payload   *)
(* of the last of them in the node list: at every moment the payload of a   *)
(* release is that of the last scanned qualifying node of its version.      *)
(***************************************************************************)
\* The scanned qualifying nodes of channel c whose version string is v.
NodesOfVersion(c, v) ==
  { k \in 1..Scanned(c) :
      /\ Qualifies(graphs[c].Nodes[k], StartVersion)
      /\ VersionString(graphs[c].Nodes[k].Version) = v }

\* The last of them.
LastNodeOfVersion(c, v) ==
  CHOOSE k \in NodesOfVersion(c, v) : \A j \in NodesOfVersion(c, v) : j <= k

C28_LastNodeWins ==
  /\ \A c \in DOMAIN graphs : \A v \in DOMAIN releasesByChannel[c] :
       /\ NodesOfVersion(c, v) # {}
       /\ releasesByChannel[c][v].Version = v
       /\ releasesByChannel[c][v].Payload
            = graphs[c].Nodes[LastNodeOfVersion(c, v)].Payload
  /\ Succeeded => result.releases = releasesByChannel

\* A successful run over a graph with two nodes of version 4.1.1 and
\* different payloads: the release has the payload of the second.
C28_Witness ==
  /\ Succeeded
  /\ \E c \in DOMAIN result.releases :
       /\ Cardinality(NodesOfVersion(c, V411)) = 2
       /\ \E j, k \in NodesOfVersion(c, V411) :
            /\ j < k
            /\ graphs[c].Nodes[j].Payload # graphs[c].Nodes[k].Payload
            /\ result.releases[c][V411].Payload = graphs[c].Nodes[k].Payload
       /\ DOMAIN result.releases[c] = {V411}

(***************************************************************************)
(* C29.  Edges are resolved when all nodes of the channel were scanned, the *)
(* unconditional ones first: in the result of a successful run the upgrades *)
(* of a release are the targets of the unconditional edges from its version *)
(* in edge order, then the targets of the accepted conditional edges from   *)
(* it in their order, each string at its first occurrence only; the place   *)
(* of the source node in the node list does not matter.                     *)
(***************************************************************************)
\* seq without the later occurrences of its elements.
RECURSIVE Dedup(_)
Dedup(seq) ==
  IF seq = <<>> THEN <<>>
  ELSE LET init == Dedup(SubSeq(seq, 1, Len(seq) - 1))
       IN  IF seq[Len(seq)] \in Range(init) THEN init ELSE Append(init, seq[Len(seq)])

\* The targets of the unconditional edges of g from a node of version v, in
\* edge order.
UnconditionalTargetSeq(g, v) ==
  LET FromV(edge) ==
        /\ g.Nodes[edge[1] + 1].Version # NilVersion
        /\ VersionString(g.Nodes[edge[1] + 1].Version) = v
      from == SelectSeq(g.Edges, FromV)
  IN  [k \in 1..Len(from) |-> VersionString(g.Nodes[from[k][2] + 1].Version)]

\* The targets of the edges from v of the accepted groups, in order.
RECURSIVE AcceptedTargetSeq(_, _)
AcceptedTargetSeq(groups, v) ==
  IF groups = <<>> THEN <<>>
  ELSE LET FromV(edge) == edge.From = v
           from == IF RiskNames(Head(groups)) \subseteq Range(allowedConditionalEdgeRisks)
                   THEN SelectSeq(Head(groups).Edges, FromV)
                   ELSE <<>>
       IN  [k \in 1..Len(from) |-> from[k].To] \o AcceptedTargetSeq(Tail(groups), v)

C29_UnconditionalThenConditional ==
  /\ pc \in {"edges", "condEdges"} =>
       DOMAIN releasesByChannel[channel] = QualifyingVersions(graph, StartVersion)
  /\ Succeeded =>
       \A c \in DOMAIN result.releases : \A v \in DOMAIN result.releases[c] :
         result.releases[c][v].AvailableUpgrades
           = Dedup(UnconditionalTargetSeq(graphs[c], v)
                   \o AcceptedTargetSeq(graphs[c].ConditionalEdges, v))

\* The graph of the node 4.1.2, the edge 0 -> 0 and the group without risks
\* with the edge 4.1.2 -> 4.1.1: the release lists 4.1.2 before 4.1.1.
C29_Witness ==
  /\ Succeeded
  /\ \E c \in DOMAIN result.releases :
       /\ graphs[c].Edges = <<<<0, 0>>>>
       /\ Len(graphs[c].ConditionalEdges) = 1
       /\ V412 \in DOMAIN result.releases[c]
       /\ result.releases[c][V412].AvailableUpgrades = <<V412, V411>>

(***************************************************************************)
(* C30.  A second call with the same arguments, to which the Graph Source   *)
(* answers as it answered the first, returns what the first call returned:  *)
(* the same error, or the same channels, keys, fields and upgrade lists in  *)
(* the same order.                                                          *)
(***************************************************************************)
C30_SecondRunReturnsTheSame ==
  (run = 2 /\ Ended) =>
    /\ pc = "returned"
    /\ result = firstResult
    /\ err = firstErr

\* The second call has returned a result of two channels, one of them with
\* a release that has upgrades, as the first call did.
C30_Witness ==
  /\ run = 2
  /\ Succeeded
  /\ Len(fetchLog) = 2
  /\ firstResult = result
  /\ \E c \in DOMAIN result.releases : \E v \in DOMAIN result.releases[c] :
       result.releases[c][v].AvailableUpgrades # <<>>

(***************************************************************************)
(* C31.  In every state the queue holds no channel twice and no processed   *)
(* channel, every channel of the queue and every processed channel is in    *)
(* queued, and the channel at the front of the queue is never skipped as    *)
(* already processed.                                                       *)
(***************************************************************************)
C31_QueueInvariant ==
  /\ NoDuplicates(queue)
  /\ Range(queue) \cap processed = {}
  /\ Range(queue) \cup processed \subseteq queued
  /\ processed \subseteq queued
  /\ (pc = "loop" /\ queue # <<>>) => ~isProcessed(Head(queue))

\* At the head of the loop, the start channel processed and two channels in
\* the queue, the first of them listed by two nodes of the graph and the
\* start channel listed again.
C31_Witness ==
  /\ pc = "loop"
  /\ Len(queue) = 2
  /\ processed = {startChannel}
  /\ startChannel \in ListedBy(graph)
  /\ \E j, k \in 1..Len(graph.Nodes) :
       /\ j # k
       /\ queue[1] \in Range(discoverNewChannels(graph.Nodes[j], startChannelPrefix,
                                                 minVersion))
       /\ queue[1] \in Range(discoverNewChannels(graph.Nodes[k], startChannelPrefix,
                                                 minVersion))

(***************************************************************************)
(* C32.  In the result of a successful run every string in the              *)
(* AvailableUpgrades of a release of channel c is a key of c's table.       *)
(***************************************************************************)
C32_NoDanglingUpgradeTarget ==
  Succeeded =>
    \A c \in DOMAIN result.releases : \A v \in DOMAIN result.releases[c] :
      Range(result.releases[c][v].AvailableUpgrades) \subseteq DOMAIN result.releases[c]

(***************************************************************************)
(* C33.  A step of the call changes the table of the channel it is working  *)
(* on and no other: every other channel keeps its table, so what the graph  *)
(* of one channel holds never shows in the table of another.                *)
(***************************************************************************)
OnlyCurrentTableChanges ==
  \A c \in DOMAIN releasesByChannel :
    c # channel' =>
      /\ c \in DOMAIN releasesByChannel'
      /\ releasesByChannel'[c] = releasesByChannel[c]

C33_OtherTablesUnchanged == [][OnlyCurrentTableChanges]_vars

\* A successful run whose two first channels both hold a version, the
\* second channel's graph alone with an edge from it: the release of the
\* first channel has no upgrades, that of the second has.
C33_Witness ==
  /\ Succeeded
  /\ Len(fetchLog) >= 2
  /\ graphs[fetchLog[1]].Edges = <<>>
  /\ graphs[fetchLog[2]].Edges # <<>>
  /\ \E v \in DOMAIN result.releases[fetchLog[1]] \cap DOMAIN result.releases[fetchLog[2]] :
       /\ result.releases[fetchLog[1]][v].AvailableUpgrades = <<>>
       /\ result.releases[fetchLog[2]][v].AvailableUpgrades # <<>>

(***************************************************************************)
(* C34.  In every table of DiscoverReleases, in its result, and in every    *)
(* table and the result of the aggregation of that result, a release is     *)
(* stored under the key that is its Version.                                *)
(***************************************************************************)
\* Every release of the map of tables is stored under its Version.
KeyedByVersion(tables) ==
  \A c \in DOMAIN tables : \A v \in DOMAIN tables[c] : tables[c][v].Version = v

C34_KeyIsTheVersion ==
  /\ KeyedByVersion(releasesByChannel)
  /\ KeyedByVersion(result.releases)
  /\ KeyedByVersion(input)
  /\ KeyedByVersion(aggregated)
  /\ KeyedByVersion(aggResult.releases)

\* The result of a run from s-4.2 holds the node "4.2" in two channels; its
\* aggregation has returned the release under 4.2.0 in group s.
C34_Witness ==
  /\ AggSucceeded
  /\ Succeeded
  /\ Cardinality(ChannelsWith(<<"s">>, <<"4", ".", "2", ".", "0">>)) = 2
  /\ DOMAIN aggResult.releases = {<<"s">>}
  /\ <<"4", ".", "2", ".", "0">> \in DOMAIN aggResult.releases[<<"s">>]

(***************************************************************************)
(* C35.  The aggregation of the result of a successful run returns a map of *)
(* exactly one group, whose key is the start channel's prefix without its   *)
(* hyphen.                                                                  *)
(***************************************************************************)
C35_OneGroup ==
  (Succeeded /\ AggReturned) =>
    /\ ~aggResult.isNil
    /\ DOMAIN aggResult.releases
         = {SubSeq(startChannelPrefix, 1, Len(startChannelPrefix) - 1)}

(***************************************************************************)
(* C36.  The aggregation of a map the aggregation returned returns a map    *)
(* equal to it, without error: the same groups, versions, fields and        *)
(* upgrade lists in the same order.                                         *)
(***************************************************************************)
C36_AggregationIsIdempotent ==
  (run = 2 /\ AggReturned) =>
    /\ ~aggResult.isNil
    /\ aggErr = NoError
    /\ Output = firstResult.releases

\* The second call has returned; the first had merged the releases of one
\* version from two channels of group s into a list of several upgrades.
C36_Witness ==
  /\ run = 2
  /\ AggSucceeded
  /\ DOMAIN Output = {<<"s">>}
  /\ \E v \in DOMAIN Output[<<"s">>] :
       /\ Len(Output[<<"s">>][v].AvailableUpgrades) >= 3
       /\ Output[<<"s">>][v] = firstResult.releases[<<"s">>][v]

====
